---- MODULE Spec2Model ----
(***************************************************************************)
(* Heatmap overlay viewer of the PancreScan results page.                  *)
(*                                                                         *)
(* Three revisions of the HeatmapViewer component are modelled:            *)
(*   "pixel"    src/src/components/results/HeatmapViewer.tsx               *)
(*   "gradient" src/unnamed/part_001                                       *)
(*   "hotspot"  src/unnamed/part_002                                       *)
(*                                                                         *)
(* Numbers that are floats in the source are exact rationals here:         *)
(* probabilities and heat values are integers in hundredths, display       *)
(* sizes are numerator/denominator pairs. The one place where the rounding *)
(* of the doubles changes a result, Math.floor((a / b) * c), is computed   *)
(* as IEEE doubles compute it (FloatFloorScaled).                          *)
(***************************************************************************)
EXTENDS Integers, Sequences, FiniteSets, TLC

VARIABLES
    variant,           \* which revision of HeatmapViewer is mounted
    originalImage,     \* prop: the image URL (a small integer names it)
    showHeatmap,       \* prop
    probability,       \* prop (gradient revision), in hundredths
    mounted,           \* the effects of the first render have run
    images,            \* every HTMLImageElement created by the load effect
    originalImageRef,  \* originalImageRef.current: 0 is null, else an index of images
    canvas,            \* the <canvas>: width, height and what was drawn since it was last cleared
    scaleIn,           \* img.width, img.height handed to the onload scaling
    scaleOut,          \* the display size it computed and the canvas size it set
    peakIn,            \* heatmapData handed to the maxPoint scan
    peakOut,           \* the maxPoint it returned
    blendIn,           \* base raster, heat grid handed to drawHeatmap (pixel revision)
    blendOut,          \* the raster after putImageData
    synthIn,           \* the random draws or the (width, height) handed to a synthetic grid generator
    synthOut,          \* the grid it returned
    hotIn,             \* base raster, heat grid handed to drawHeatmap (hotspot revision)
    hotOut,            \* the raster after putImageData and the maxPoint found
    mapIn,             \* raster length, grid length handed to the coordinate scaling of getHeatmapValue
    mapOut,            \* the grid index it gave each pixel coordinate
    gradIn,            \* width, height handed to drawHeatmap (gradient revision)
    gradOut,           \* the region, centre, radius and colour stops of the gradient it filled
    service,           \* which revision of analysisService is loaded
    model,             \* let model: the cached classifier (0 is null, k the model loaded by call k)
    analyses,          \* the analyzeImage calls made: where each one is and what it got
    message,           \* ResultsPage state: the text of the chat input, a sequence of characters
    chatMessages,      \* ResultsPage state: the chat messages shown
    sends              \* the handleSendMessage calls made: the text each one read and how far it is

vars == <<variant, originalImage, showHeatmap, probability, mounted, images,
          originalImageRef, canvas, scaleIn, scaleOut, peakIn, peakOut,
          blendIn, blendOut,
          synthIn, synthOut,
          hotIn, hotOut,
          mapIn, mapOut,
          gradIn, gradOut,
          service, model, analyses,
          message, chatMessages, sends>>

viewerVars == <<variant, originalImage, showHeatmap, probability, mounted,
                images, originalImageRef, canvas>>
scaleVars == <<scaleIn, scaleOut>>
peakVars == <<peakIn, peakOut>>
blendVars == <<blendIn, blendOut>>
synthVars == <<synthIn, synthOut>>
hotVars == <<hotIn, hotOut>>
mapVars == <<mapIn, mapOut>>
gradVars == <<gradIn, gradOut>>
serviceVars == <<service, model, analyses>>
chatVars == <<message, chatMessages, sends>>

----------------------------------------------------------------------------
(* Bounds of the model *)

MaxLoads == 4       \* image loads started over a run
MaxHundreds == 12   \* image sizes up to 100 * MaxHundreds + 1 pixels
MaxGrid == 5        \* heat grids of the peak scan are up to MaxGrid x MaxGrid
MaxRaster == 3      \* rasters of the pixel blend are up to MaxRaster x MaxRaster
MaxBlendGrid == 2   \* heat grids of the pixel blend are up to MaxBlendGrid x MaxBlendGrid
MaxHotRaster == 20  \* rasters of the hotspot highlight are up to MaxHotRaster x MaxHotRaster
MaxMapLen == 26     \* raster and grid lengths of the coordinate scaling are up to MaxMapLen
RandomSteps == 3    \* Math.random() returns k / RandomSteps for a k in 0..RandomSteps - 1
MaxCalls == 3       \* analyzeImage calls made over a run
MaxSends == 3       \* handleSendMessage calls made over a run

Variants == {"pixel", "gradient", "hotspot"}
Urls == {1, 2}
Probabilities == {29, 30, 31}

None == [none |-> TRUE]

----------------------------------------------------------------------------
(* Image scaling, part_001 img.onload *)

maxWidth == 400
maxHeight == 300

\* A size whose width and height are the rationals wn/wd and hn/hd.
Size(wn, wd, hn, hd) == [wn |-> wn, wd |-> wd, hn |-> hn, hd |-> hd]

\* A faulty LimitWidth: the width is set to maxWidth whatever it was.
LimitWidthAlways(w, h) == Size(maxWidth, 1, maxWidth * h, w)

\* if (width > maxWidth) { width = maxWidth; height = width / aspectRatio; }
LimitWidth(w, h) ==
    IF w > maxWidth THEN Size(maxWidth, 1, maxWidth * h, w)
                    ELSE Size(w, 1, h, 1)

\* A faulty LimitHeight: "else if", the height check is skipped once the width was limited.
LimitHeightElseIf(s, w, h) ==
    IF w > maxWidth THEN s
    ELSE IF s.hn > maxHeight * s.hd THEN Size(maxHeight * w, h, maxHeight, 1) ELSE s

\* if (height > maxHeight) { height = maxHeight; width = height * aspectRatio; }
LimitHeight(s, w, h) ==
    IF s.hn > maxHeight * s.hd THEN Size(maxHeight * w, h, maxHeight, 1)
                               ELSE s

\* A faulty DisplaySize: the height limit does not recompute the width.
DisplaySizeKeepWidth(w, h) ==
    LET s == LimitWidth(w, h)
    IN  IF s.hn > maxHeight * s.hd THEN Size(s.wn, s.wd, maxHeight, 1) ELSE s

\* The width and height computed by img.onload for an img.width x img.height image.
DisplaySize(w, h) == LimitHeight(LimitWidth(w, h), w, h)

\* canvas.width = width: the attribute is an unsigned long, the fraction is dropped.
ToUnsignedLong(n, d) == n \div d

CanvasSize(s) == [width  |-> ToUnsignedLong(s.wn, s.wd),
                  height |-> ToUnsignedLong(s.hn, s.hd)]

\* The image sizes tried: tiny ones and those around every multiple of 100.
Dims == {1, 2, 3, 7} \cup
        {d \in {k * 100 + j : k \in 0..MaxHundreds, j \in {-1, 0, 1}} : d > 0}

\* img.onload up to canvas.width = width; canvas.height = height
ScaleOnLoad ==
    /\ scaleIn # None
    /\ scaleOut = None
    /\ scaleOut' = [display |-> DisplaySize(scaleIn.width, scaleIn.height),
                    canvas  |-> CanvasSize(DisplaySize(scaleIn.width, scaleIn.height))]
    /\ UNCHANGED <<viewerVars, scaleIn, peakVars, blendVars, synthVars, hotVars, mapVars, gradVars, serviceVars, chatVars>>

----------------------------------------------------------------------------
(* The viewer: props, effects, image loads, canvas *)

\* The intrinsic size of the image behind a URL (an input of the model).
NaturalSize(u) == [width |-> 250 * u, height |-> 900 \div u]

threshold == 30

\* A faulty Gate: the threshold itself is excluded.
GateStrict(v, show, prob) ==
    IF v = "gradient" THEN show /\ prob > 30 ELSE show

\* A faulty Gate: a probability outside [0,1] never shows the overlay.
GateInRangeOnly(v, show, prob) ==
    IF v = "gradient" THEN show /\ prob >= 30 /\ prob <= 100 ELSE show

\* showHeatmap && probability >= 0.3 (gradient); showHeatmap (pixel, hotspot)
Gate(v, show, prob) ==
    IF v = "gradient" THEN show /\ prob >= threshold ELSE show

\* The "Analysis Overlay Active" badge; the pixel revision renders none.
Indicator ==
    CASE variant = "gradient" -> showHeatmap /\ probability >= threshold
      [] variant = "hotspot"  -> showHeatmap
      [] OTHER                -> FALSE

\* The <canvas> element as created: 300 x 150, nothing drawn.
DefaultCanvas == [width |-> 300, height |-> 150, layers |-> <<>>]

ImageLayer(i) == [kind |-> "image", img |-> i]
OverlayLayer == [kind |-> "overlay", img |-> 0]

\* ctx.clearRect(0, 0, canvas.width, canvas.height)
ClearRect(c) == [c EXCEPT !.layers = <<>>]

\* ctx.drawImage(img, 0, 0, w, h): an image that is not decoded draws nothing.
DrawImage(c, i, img) ==
    IF img.complete THEN [c EXCEPT !.layers = Append(@, ImageLayer(i))] ELSE c

\* drawHeatmap(ctx, w, h): one more overlay pass over what the canvas holds.
DrawHeatmap(c) == [c EXCEPT !.layers = Append(@, OverlayLayer)]

\* canvas.width = w; canvas.height = h: setting a dimension resets the bitmap.
Resize(c, w, h) == [width |-> w, height |-> h, layers |-> <<>>]

\* The images the browser already holds decoded (its list of available images).
Available(imgs) ==
    {imgs[j].src : j \in {k \in 1..Len(imgs) : imgs[k].fired /\ ~imgs[k].broken}}

\* const img = new Image(); img.src = originalImage; the onload closure keeps
\* the props of this render.
NewImage(src, show, prob, cached) ==
    [src |-> src, show |-> show, prob |-> prob, complete |-> cached, fired |-> FALSE,
     broken |-> FALSE]

\* The size img.onload gives the canvas.
OnLoadSize(v, src) ==
    IF v = "gradient"
    THEN CanvasSize(DisplaySize(NaturalSize(src).width, NaturalSize(src).height))
    ELSE NaturalSize(src)

\* A faulty OnLoadCanvas: a decode that completes after another one is dropped.
OnLoadCanvasFirstWins(v, c, i, img) ==
    IF c.layers # <<>> THEN c
    ELSE DrawImage(Resize(c, OnLoadSize(v, img.src).width, OnLoadSize(v, img.src).height),
                   i, [img EXCEPT !.complete = TRUE])

\* img.onload of images[i]
OnLoadCanvas(v, c, i, img) ==
    LET loaded == [img EXCEPT !.complete = TRUE]
        sized  == Resize(c, OnLoadSize(v, img.src).width, OnLoadSize(v, img.src).height)
        drawn  == DrawImage(sized, i, loaded)
    IN  IF Gate(v, img.show, img.prob) THEN DrawHeatmap(drawn) ELSE drawn

\* A faulty RedrawEffect: the canvas is not cleared before the redraw.
RedrawEffectNoClear(v, c, i, img, show, prob) ==
    IF v = "pixel" /\ ~img.complete
    THEN c
    ELSE LET drawn == DrawImage(c, i, img)
         IN  IF Gate(v, show, prob) THEN DrawHeatmap(drawn) ELSE drawn

\* The second useEffect (deps: showHeatmap [, probability]).
RedrawEffect(v, c, i, img, show, prob) ==
    IF v = "pixel" /\ ~img.complete
    THEN c
    ELSE LET drawn == DrawImage(ClearRect(c), i, img)
         IN  IF Gate(v, show, prob) THEN DrawHeatmap(drawn) ELSE drawn

\* A render commit: the first useEffect starts a load of src, then (when its deps
\* changed) the second useEffect redraws from originalImageRef.current.
Commit(src, show, prob, redraw) ==
    /\ Len(images) < MaxLoads
    /\ \E cached \in (IF src \in Available(images) THEN BOOLEAN ELSE {FALSE}) :
         LET img == NewImage(src, show, prob, cached)
             i   == Len(images) + 1
         IN  /\ images' = Append(images, img)
             /\ originalImageRef' = i
             /\ canvas' = IF redraw
                          THEN RedrawEffect(variant, canvas, i, img, show, prob)
                          ELSE canvas
    /\ originalImage' = src
    /\ showHeatmap' = show
    /\ probability' = prob
    /\ UNCHANGED variant

Mount ==
    /\ ~mounted
    /\ mounted' = TRUE
    /\ Commit(originalImage, showHeatmap, probability, TRUE)
    /\ UNCHANGED <<scaleVars, peakVars, blendVars, synthVars, hotVars, mapVars, gradVars, serviceVars, chatVars>>

\* ResultsPage: onClick={() => setShowHeatmap(!showHeatmap)}
ToggleHeatmap ==
    /\ mounted
    /\ Commit(originalImage, ~showHeatmap, probability, TRUE)
    /\ UNCHANGED <<mounted, scaleVars, peakVars, blendVars, synthVars, hotVars, mapVars, gradVars, serviceVars, chatVars>>

\* The parent passes another probability (gradient revision only).
SetProbability ==
    /\ mounted
    /\ variant = "gradient"
    /\ \E p \in Probabilities \ {probability} :
         Commit(originalImage, showHeatmap, p, TRUE)
    /\ UNCHANGED <<mounted, scaleVars, peakVars, blendVars, synthVars, hotVars, mapVars, gradVars, serviceVars, chatVars>>

\* The parent passes another image URL: only the first effect depends on it.
SetOriginalImage ==
    /\ mounted
    /\ \E u \in Urls \ {originalImage} :
         Commit(u, showHeatmap, probability, FALSE)
    /\ UNCHANGED <<mounted, scaleVars, peakVars, blendVars, synthVars, hotVars, mapVars, gradVars, serviceVars, chatVars>>

\* The decode of images[i] completes and its onload handler runs.
OnLoadOf(i) ==
    /\ ~images[i].fired
    /\ images' = [images EXCEPT ![i].complete = TRUE, ![i].fired = TRUE]
    /\ canvas' = OnLoadCanvas(variant, canvas, i, images[i])
    /\ UNCHANGED <<variant, originalImage, showHeatmap, probability, mounted,
                   originalImageRef, scaleVars, peakVars, blendVars, synthVars, hotVars, mapVars, gradVars, serviceVars, chatVars>>

OnLoad == \E i \in 1..Len(images) : OnLoadOf(i)

\* The decode of images[i] fails: the image is broken and its error event is
\* dispatched. No revision sets img.onerror, so no handler runs and nothing is
\* drawn or reported. (Every redraw reads an image created in the same commit,
\* before any event of it, so drawImage never meets a broken image.)
OnErrorOf(i) ==
    /\ ~images[i].fired
    /\ ~images[i].complete
    /\ images' = [images EXCEPT ![i].broken = TRUE, ![i].fired = TRUE]
    /\ UNCHANGED <<variant, originalImage, showHeatmap, probability, mounted,
                   originalImageRef, canvas, scaleVars, peakVars, blendVars, synthVars, hotVars, mapVars, gradVars, serviceVars, chatVars>>

OnError == \E i \in 1..Len(images) : OnErrorOf(i)

ViewerInit ==
    /\ variant \in Variants
    /\ originalImage \in Urls
    /\ showHeatmap \in BOOLEAN
    /\ probability \in (IF variant = "gradient" THEN Probabilities ELSE {30})
    /\ mounted = FALSE
    /\ images = <<>>
    /\ originalImageRef = 0
    /\ canvas = DefaultCanvas

ViewerIdle ==
    /\ variant = "pixel"
    /\ originalImage = 1
    /\ showHeatmap = FALSE
    /\ probability = 30
    /\ mounted = FALSE
    /\ images = <<>>
    /\ originalImageRef = 0
    /\ canvas = DefaultCanvas

ScaleIdle == scaleIn = None /\ scaleOut = None
PeakIdle == peakIn = None /\ peakOut = None
BlendIdle == blendIn = None /\ blendOut = None
SynthIdle == synthIn = None /\ synthOut = None
HotIdle == hotIn = None /\ hotOut = None
MapIdle == mapIn = None /\ mapOut = None
GradIdle == gradIn = None /\ gradOut = None
ServiceIdle == service = "layers" /\ model = 0 /\ analyses = <<>>
\* useState<ChatMessage[]>([{ id: '1', text: 'Hello! ...', sender: 'bot', ... }])
Greeting == [sender |-> "bot", text |-> <<"Hello!">>, send |-> 0]

ChatIdle == message = <<>> /\ chatMessages = <<Greeting>> /\ sends = <<>>

Init == ViewerInit /\ ScaleIdle /\ PeakIdle /\ BlendIdle /\ SynthIdle /\ HotIdle /\ MapIdle /\ GradIdle /\ ServiceIdle /\ ChatIdle

Next ==
    \/ Mount
    \/ ToggleHeatmap
    \/ SetProbability
    \/ SetOriginalImage
    \/ OnLoad

Spec == Init /\ [][Next]_vars

\* The viewer when no image URL it is given can be decoded.
NextUndecodable ==
    \/ Mount
    \/ ToggleHeatmap
    \/ SetProbability
    \/ SetOriginalImage
    \/ OnError

SpecUndecodable == Init /\ [][NextUndecodable]_vars

\* The gradient revision when the parent passes probabilities outside [0,1] too.
AnyProbabilities == {-20, 30, 130}

SetAnyProbability ==
    /\ mounted
    /\ variant = "gradient"
    /\ \E p \in AnyProbabilities \ {probability} :
         Commit(originalImage, showHeatmap, p, TRUE)
    /\ UNCHANGED <<mounted, scaleVars, peakVars, blendVars, synthVars, hotVars, mapVars, gradVars, serviceVars, chatVars>>

InitAnyProbability ==
    /\ variant = "gradient"
    /\ originalImage \in Urls
    /\ showHeatmap \in BOOLEAN
    /\ probability \in AnyProbabilities
    /\ mounted = FALSE
    /\ images = <<>>
    /\ originalImageRef = 0
    /\ canvas = DefaultCanvas
    /\ ScaleIdle /\ PeakIdle /\ BlendIdle /\ SynthIdle /\ HotIdle /\ MapIdle /\ GradIdle /\ ServiceIdle /\ ChatIdle

NextAnyProbability ==
    \/ Mount
    \/ ToggleHeatmap
    \/ SetAnyProbability
    \/ OnLoad

SpecAnyProbability == InitAnyProbability /\ [][NextAnyProbability]_vars

----------------------------------------------------------------------------
(* Heat grids. heatmapData[y][x] is grid[y + 1][x + 1]; values are hundredths. *)

HeatValues == {0, 10, 11, 55, 100}

GridHeight(grid) == Len(grid)        \* heatmapData.length
GridWidth(grid) == Len(grid[1])      \* heatmapData[0].length

\* A gh x gw grid of value bg with the cells (ax, ay) and (bx, by) raised to va and vb.
TwoSpotGrid(gw, gh, bg, ax, ay, va, bx, by, vb) ==
    [y \in 1..gh |->
        [x \in 1..gw |->
            IF x = bx + 1 /\ y = by + 1 THEN vb
            ELSE IF x = ax + 1 /\ y = ay + 1 THEN va
            ELSE bg]]

----------------------------------------------------------------------------
(* The maxPoint scan of drawHeatmap, part_002 *)

NoPoint == [x |-> 0, y |-> 0, value |-> 0]

\* A faulty Better: ">=" for ">", the last of equal cells wins.
BetterOrEqual(v, best) == v >= best.value

\* if (heatmapData[y][x] > maxPoint.value)
Better(v, best) == v > best.value

\* The two nested loops from cell n (row-major, x fastest) on.
RECURSIVE ScanFrom(_, _, _)
ScanFrom(grid, n, best) ==
    IF n >= GridHeight(grid) * GridWidth(grid) THEN best
    ELSE LET x == n % GridWidth(grid)
             y == n \div GridWidth(grid)
             v == grid[y + 1][x + 1]
         IN  ScanFrom(grid, n + 1,
                      IF Better(v, best) THEN [x |-> x, y |-> y, value |-> v] ELSE best)

\* let maxPoint = { x: 0, y: 0, value: 0 }; for (y ...) for (x ...) ...
MaxPoint(grid) == ScanFrom(grid, 0, NoPoint)

FindPeak ==
    /\ peakIn # None
    /\ peakOut = None
    /\ peakOut' = MaxPoint(peakIn)
    /\ UNCHANGED <<viewerVars, scaleVars, peakIn, blendVars, synthVars, hotVars, mapVars, gradVars, serviceVars, chatVars>>

\* The grids tried: MaxGrid wide, MaxGrid or MaxGrid - 1 high, zero but for two cells.
PeakGrids ==
    UNION {{TwoSpotGrid(MaxGrid, gh, 0, a[1], a[2], va, b[1], b[2], vb) :
                a \in (0..MaxGrid - 1) \X (0..gh - 1),
                b \in (0..MaxGrid - 1) \X (0..gh - 1),
                va \in {0, 55, 100}, vb \in {0, 55, 100}} :
           gh \in {MaxGrid - 1, MaxGrid}}

PeakInit ==
    /\ peakIn \in PeakGrids
    /\ peakOut = None

InitPeak == ViewerIdle /\ ScaleIdle /\ PeakInit /\ BlendIdle /\ SynthIdle /\ HotIdle /\ MapIdle /\ GradIdle /\ ServiceIdle /\ ChatIdle

NextPeak == FindPeak

SpecPeak == InitPeak /\ [][NextPeak]_vars

----------------------------------------------------------------------------
(* drawHeatmap and getHeatmapValue of the pixel revision, HeatmapViewer.tsx.   *)
(* A pixel is <<red, green, blue, alpha>>; data holds the pixels row by row.   *)

\* Heat values are never negative; these two stand for what a read outside the
\* grid gives.
Undefined == -1
TypeError == -2

RECURSIVE Pow2(_)
Pow2(n) == IF n = 0 THEN 1 ELSE 2 * Pow2(n - 1)

\* The n >= 1 with 2^-n <= a/b < 2^(1-n), for 0 < a < b: the binade of a/b.
RECURSIVE BinadeOf(_, _, _)
BinadeOf(a, b, n) == IF a * Pow2(n) >= b THEN n ELSE BinadeOf(a, b, n + 1)

\* The least e >= -1 with 2^(e+1) >= k: the binade of the doubles just below k.
RECURSIVE BinadeBelow(_, _)
BinadeBelow(k, e) == IF Pow2(e + 1) >= k THEN e ELSE BinadeBelow(k, e + 1)

\* Long division of r/b by `steps` more binary digits: <<remainder, last digit>>.
RECURSIVE Divide(_, _, _, _)
Divide(r, b, steps, bit) ==
    IF steps = 0 THEN <<r, bit>>
    ELSE Divide((2 * r) % b, b, steps - 1, (2 * r) \div b)

\* The double a / b is below the rational a/b, by rem/b units in the last place:
\* the 53-digit quotient was rounded down (to nearest, a tie to the even digit).
\* 0 when the double is exact or above.
RoundedDownBy(a, b) ==
    LET d == Divide(a, b, 52 + BinadeOf(a, b, 1), 0)
    IN  IF 2 * d[1] < b \/ (2 * d[1] = b /\ d[2] = 0) THEN d[1] ELSE 0

\* Math.floor((a / b) * c) in IEEE doubles, for integers 0 <= a < b and c >= 1.
\* When a*c/b is no integer the doubles give its floor. When it is an integer k,
\* a / b rounded down makes the product fall short of k, and it rounds back to k
\* unless the shortfall exceeds half the spacing of the doubles below k.
FloatFloorScaled(a, b, c) ==
    LET k == (a * c) \div b
    IN  IF a = 0 \/ k = 0 \/ (a * c) % b # 0 THEN k
        ELSE IF 2 * RoundedDownBy(a, b) * c
                    > b * Pow2(BinadeBelow(k, -1) + BinadeOf(a, b, 1))
             THEN k - 1
             ELSE k

\* A faulty ScaleCoord: Math.ceil for Math.floor.
ScaleCoordCeil(p, rasterLen, gridLen) == (p * gridLen + rasterLen - 1) \div rasterLen

\* Math.floor((x / width) * heatmapWidth)
ScaleCoord(p, rasterLen, gridLen) == FloatFloorScaled(p, rasterLen, gridLen)

\* The cell getHeatmapValue reads for pixel (x, y).
RasterToGrid(x, y, width, height, heatmap) ==
    <<ScaleCoord(x, width, GridWidth(heatmap)), ScaleCoord(y, height, GridHeight(heatmap))>>

\* heatmap[0].length throws when the grid has no row; heatmap[scaledY][scaledX]:
\* a missing row throws, a missing cell reads undefined.
GetHeatmapValue(x, y, width, height, heatmap) ==
    IF heatmap = <<>> THEN TypeError
    ELSE LET c == RasterToGrid(x, y, width, height, heatmap)
         IN  IF c[2] + 1 \notin DOMAIN heatmap THEN TypeError
             ELSE IF c[1] + 1 \notin DOMAIN heatmap[c[2] + 1] THEN Undefined
             ELSE heatmap[c[2] + 1][c[1] + 1]

Min(a, b) == IF a < b THEN a ELSE b
Max(a, b) == IF a > b THEN a ELSE b

\* Storing the rational n/d into a Uint8ClampedArray: clamp to 0..255 and round
\* to the nearest integer, a tie to the even one.
ToUint8Clamp(n, d) ==
    LET f == n \div d
        r == n % d
    IN  IF n <= 0 THEN 0
        ELSE IF n >= 255 * d THEN 255
        ELSE IF 2 * r > d THEN f + 1
        ELSE IF 2 * r < d THEN f
        ELSE IF f % 2 = 0 THEN f ELSE f + 1

\* A faulty BlendPixel: the green and blue factors are exchanged.
BlendPixelSwapped(px, v) ==
    IF v = Undefined \/ ~(v > 10) THEN px
    ELSE <<ToUint8Clamp(Min(255 * 100, px[1] * 100 + v * 200), 100),
           ToUint8Clamp(Max(0, px[2] * 100 - v * 150), 100),
           ToUint8Clamp(Max(0, px[3] * 100 - v * 100), 100),
           px[4]>>

\* A faulty BlendPixel: every pixel whose heat value is above 0 is blended.
BlendPixelNoThreshold(px, v) ==
    IF v = Undefined \/ ~(v > 0) THEN px
    ELSE <<ToUint8Clamp(Min(255 * 100, px[1] * 100 + v * 200), 100),
           ToUint8Clamp(Max(0, px[2] * 100 - v * 100), 100),
           ToUint8Clamp(Max(0, px[3] * 100 - v * 150), 100),
           px[4]>>

\* if (heatValue > 0.1) { data[idx] = Math.min(255, data[idx] + heatValue * 200); ... }
BlendPixel(px, v) ==
    IF v = Undefined \/ ~(v > 10) THEN px
    ELSE <<ToUint8Clamp(Min(255 * 100, px[1] * 100 + v * 200), 100),
           ToUint8Clamp(Max(0, px[2] * 100 - v * 100), 100),
           ToUint8Clamp(Max(0, px[3] * 100 - v * 150), 100),
           px[4]>>

PixelX(idx, width) == (idx - 1) % width
PixelY(idx, width) == (idx - 1) \div width

\* drawHeatmap(ctx, width, height) on the raster data with heatmapData = heatmap:
\* the raster after putImageData, the cells read, and whether a read threw (no
\* putImageData then, the canvas keeps the base raster, and the pixels after the
\* throwing one are not reached).
DrawHeatmapPixels(width, height, data, heatmap) ==
    LET value(idx) == GetHeatmapValue(PixelX(idx, width), PixelY(idx, width),
                                      width, height, heatmap)
        throwing == {idx \in 1..(width * height) : value(idx) = TypeError}
        threw == throwing # {}
        reached == {idx \in 1..(width * height) : \A t \in throwing : idx < t}
    IN  [data    |-> IF threw THEN data
                     ELSE [idx \in 1..(width * height) |-> BlendPixel(data[idx], value(idx))],
         sampled |-> {RasterToGrid(PixelX(idx, width), PixelY(idx, width),
                                   width, height, heatmap) : idx \in reached},
         threw   |-> threw]

\* The pixel colours of the base rasters tried.
Palette == <<<<0, 0, 0, 255>>, <<100, 120, 140, 255>>, <<250, 5, 8, 200>>>>

BaseRaster(width, height, shift) ==
    [idx \in 1..(width * height) |-> Palette[((idx + shift) % Len(Palette)) + 1]]

\* The grids tried: up to MaxBlendGrid x MaxBlendGrid, one background value, one cell set.
BlendGrids ==
    UNION {{TwoSpotGrid(d[1], d[2], bg, 0, 0, bg, b[1], b[2], vb) :
                b \in (0..d[1] - 1) \X (0..d[2] - 1),
                bg \in {0, 10, 55}, vb \in HeatValues} :
           d \in (1..MaxBlendGrid) \X (1..MaxBlendGrid)}

BlendInputs ==
    {[width |-> w, height |-> h, data |-> BaseRaster(w, h, shift), heatmap |-> g] :
        w \in 1..MaxRaster, h \in 1..MaxRaster, shift \in 0..2, g \in BlendGrids}

\* A faulty DrawHeatmapAction: the cells read are consumed, the grid is left
\* without any heat.
DrawHeatmapActionConsuming ==
    /\ blendIn # None
    /\ blendOut = None
    /\ blendOut' = DrawHeatmapPixels(blendIn.width, blendIn.height,
                                     blendIn.data, blendIn.heatmap)
    /\ blendIn' = [blendIn EXCEPT !.heatmap =
                      [y \in DOMAIN blendIn.heatmap |->
                          [x \in DOMAIN blendIn.heatmap[y] |-> 0]]]
    /\ UNCHANGED <<viewerVars, scaleVars, peakVars, synthVars, hotVars, mapVars, gradVars, serviceVars, chatVars>>

DrawHeatmapAction ==
    /\ blendIn # None
    /\ blendOut = None
    /\ blendOut' = DrawHeatmapPixels(blendIn.width, blendIn.height,
                                     blendIn.data, blendIn.heatmap)
    /\ UNCHANGED <<viewerVars, scaleVars, peakVars, blendIn, synthVars, hotVars, mapVars, gradVars, serviceVars, chatVars>>

BlendInit ==
    /\ blendIn \in BlendInputs
    /\ blendOut = None

InitBlend == ViewerIdle /\ ScaleIdle /\ PeakIdle /\ BlendInit /\ SynthIdle /\ HotIdle /\ MapIdle /\ GradIdle /\ ServiceIdle /\ ChatIdle

NextBlend == DrawHeatmapAction

SpecBlend == InitBlend /\ [][NextBlend]_vars

\* scaledX (scaledY likewise) of getHeatmapValue for every x of a raster of
\* rasterLen pixels over a grid of gridLen cells: cells[x + 1] is scaledX.
ScaleAll(rasterLen, gridLen) ==
    [cells |-> [i \in 1..rasterLen |-> ScaleCoord(i - 1, rasterLen, gridLen)]]

ScaleCoords ==
    /\ mapIn # None
    /\ mapOut = None
    /\ mapOut' = ScaleAll(mapIn.rasterLen, mapIn.gridLen)
    /\ UNCHANGED <<viewerVars, scaleVars, peakVars, blendVars, synthVars, hotVars, mapIn, gradVars, serviceVars, chatVars>>

MapInit ==
    /\ mapIn \in [rasterLen : 1..MaxMapLen, gridLen : 1..MaxMapLen]
    /\ mapOut = None

InitMap == ViewerIdle /\ ScaleIdle /\ PeakIdle /\ BlendIdle /\ SynthIdle /\ HotIdle /\ MapInit /\ GradIdle /\ ServiceIdle /\ ChatIdle

NextMap == ScaleCoords

SpecMap == InitMap /\ [][NextMap]_vars

\* A row of n cells of 1.0.
HotRow(n) == [x \in 1..n |-> 100]

\* The grids of up to MaxBlendGrid rows of up to MaxBlendGrid cells.
AnyGrids ==
    UNION {[1..gh -> {HotRow(n) : n \in 0..MaxBlendGrid}] : gh \in 0..MaxBlendGrid}

\* number[][] values that are no heat grid: no row, an empty row, or rows of
\* unequal length.
IsValidGrid(grid) ==
    /\ Len(grid) >= 1
    /\ \A y \in 1..Len(grid) : Len(grid[y]) >= 1 /\ Len(grid[y]) = Len(grid[1])

BadGridInputs ==
    {[width |-> w, height |-> h, data |-> BaseRaster(w, h, shift), heatmap |-> g] :
        w \in 1..MaxRaster, h \in 1..MaxRaster, shift \in 0..2,
        g \in {grid \in AnyGrids : ~IsValidGrid(grid)}}

BadGridInit ==
    /\ blendIn \in BadGridInputs
    /\ blendOut = None

InitBadGrid == ViewerIdle /\ ScaleIdle /\ PeakIdle /\ BadGridInit /\ SynthIdle /\ HotIdle /\ MapIdle /\ GradIdle /\ ServiceIdle /\ ChatIdle

NextBadGrid == DrawHeatmapAction

SpecBadGrid == InitBadGrid /\ [][NextBadGrid]_vars

ScaleInit ==
    /\ scaleIn \in [width : Dims, height : Dims]
    /\ scaleOut = None

InitScale == ViewerIdle /\ ScaleInit /\ PeakIdle /\ BlendIdle /\ SynthIdle /\ HotIdle /\ MapIdle /\ GradIdle /\ ServiceIdle /\ ChatIdle

NextScale == ScaleOnLoad

SpecScale == InitScale /\ [][NextScale]_vars

----------------------------------------------------------------------------
(* The synthetic grid generators: generateMockHeatmap of analysisService.ts    *)
(* and generateSyntheticHeatmap of HeatmapViewer.tsx. Heat values are in       *)
(* hundredths, rounded down.                                                   *)

size == 50
heatmapWidth == 50
heatmapHeight == 50

\* A faulty RandomFloor: the draw spans the whole axis.
RandomFloorWhole(n, a, b, k) == (n * k) \div RandomSteps

\* Math.floor(n * (a + Math.random() * b)), a and b in hundredths, for the draw
\* k / RandomSteps.
RandomFloor(n, a, b, k) == (n * (a * RandomSteps + b * k)) \div (100 * RandomSteps)

\* Math.floor(n * a), a in hundredths.
FractionFloor(n, a) == (n * a) \div 100

\* Math.pow(x - centerX, 2) + Math.pow(y - centerY, 2)
Dist2(x, y, centerX, centerY) ==
    (x - centerX) * (x - centerX) + (y - centerY) * (y - centerY)

\* distance / radius in hundredths, rounded up, for distance < radius.
DistanceRatio(d2, radius) ==
    CHOOSE n \in 0..100 :
        /\ n * n * radius * radius >= 10000 * d2
        /\ n = 0 \/ (n - 1) * (n - 1) * radius * radius < 10000 * d2

\* A faulty HotspotValue: the heat grows with the distance.
HotspotValueRising(peak, d2, radius) == Max(0, peak + DistanceRatio(d2, radius))

\* Math.max(0, peak - distance / radius)
HotspotValue(peak, d2, radius) == Max(0, peak - DistanceRatio(d2, radius))

\* A faulty MaxMerge: the secondary hotspot overwrites the cell.
MaxMergeOverwrite(old, value) == value

\* heatmap[y][x] = Math.max(heatmap[y][x], value)
MaxMerge(old, value) == Max(old, value)

\* Array(h).fill(0).map(() => Array(w).fill(0)) and the first pair of loops.
PrimaryHotspot(w, h, centerX, centerY, radius) ==
    [y \in 1..h |-> [x \in 1..w |->
        LET d2 == Dist2(x - 1, y - 1, centerX, centerY)
        IN  IF d2 < radius * radius THEN HotspotValue(100, d2, radius) ELSE 0]]

\* The second pair of loops.
SecondaryHotspot(heatmap, centerX2, centerY2, radius2) ==
    [y \in 1..Len(heatmap) |-> [x \in 1..Len(heatmap[y]) |->
        LET d2 == Dist2(x - 1, y - 1, centerX2, centerY2)
        IN  IF d2 < radius2 * radius2
            THEN MaxMerge(heatmap[y][x], HotspotValue(80, d2, radius2))
            ELSE heatmap[y][x]]]

Spot(x, y, radius) == [x |-> x, y |-> y, radius |-> radius]

\* generateMockHeatmap() for the draws of Math.random() in call order: the grid
\* after the first loops, the grid returned, and the hotspots written.
generateMockHeatmap(draws) ==
    LET centerX == RandomFloor(size, 30, 40, draws[1])
        centerY == RandomFloor(size, 30, 40, draws[2])
        radius  == RandomFloor(size, 10, 10, draws[3])
        primary == PrimaryHotspot(size, size, centerX, centerY, radius)
        centerX2 == RandomFloor(size, 40, 40, draws[5])
        centerY2 == RandomFloor(size, 40, 40, draws[6])
        radius2  == FractionFloor(size, 8)
    IN  IF 2 * draws[4] > RandomSteps
        THEN [primary |-> primary,
              heatmap |-> SecondaryHotspot(primary, centerX2, centerY2, radius2),
              spots   |-> <<Spot(centerX, centerY, radius),
                            Spot(centerX2, centerY2, radius2)>>]
        ELSE [primary |-> primary,
              heatmap |-> primary,
              spots   |-> <<Spot(centerX, centerY, radius)>>]

\* generateSyntheticHeatmap(width, height): the arguments are not read.
generateSyntheticHeatmap(width, height) ==
    LET centerX == FractionFloor(heatmapWidth, 70)
        centerY == FractionFloor(heatmapHeight, 40)
        radius  == FractionFloor(heatmapWidth, 15)
        primary == PrimaryHotspot(heatmapWidth, heatmapHeight, centerX, centerY, radius)
        centerX2 == FractionFloor(heatmapWidth, 30)
        centerY2 == FractionFloor(heatmapHeight, 60)
        radius2  == FractionFloor(heatmapWidth, 10)
    IN  [primary |-> primary,
         heatmap |-> SecondaryHotspot(primary, centerX2, centerY2, radius2),
         spots   |-> <<Spot(centerX, centerY, radius),
                       Spot(centerX2, centerY2, radius2)>>]

Randoms == 0..(RandomSteps - 1)

\* The draws of one call of generateMockHeatmap: four when Math.random() > 0.5
\* fails, six when it holds.
MockDraws ==
    {d \in UNION {[1..4 -> Randoms], [1..6 -> Randoms]} :
        Len(d) = (IF 2 * d[4] > RandomSteps THEN 6 ELSE 4)}

\* The canvas sizes drawHeatmap passes on.
SynthSizes == {1, 50, 400} \X {1, 50, 300}

SynthInputs ==
    {[gen |-> "mock", args |-> <<>>, draws |-> d] : d \in MockDraws}
        \cup {[gen |-> "synthetic", args |-> a, draws |-> <<>>] : a \in SynthSizes}

GenerateMock ==
    /\ synthIn # None
    /\ synthOut = None
    /\ synthIn.gen = "mock"
    /\ synthOut' = generateMockHeatmap(synthIn.draws)
    /\ UNCHANGED <<viewerVars, scaleVars, peakVars, blendVars, synthIn, hotVars, mapVars, gradVars, serviceVars, chatVars>>

GenerateSynthetic ==
    /\ synthIn # None
    /\ synthOut = None
    /\ synthIn.gen = "synthetic"
    /\ synthOut' = generateSyntheticHeatmap(synthIn.args[1], synthIn.args[2])
    /\ UNCHANGED <<viewerVars, scaleVars, peakVars, blendVars, synthIn, hotVars, mapVars, gradVars, serviceVars, chatVars>>

SynthInit ==
    /\ synthIn \in SynthInputs
    /\ synthOut = None

InitSynth == ViewerIdle /\ ScaleIdle /\ PeakIdle /\ BlendIdle /\ SynthInit /\ HotIdle /\ MapIdle /\ GradIdle /\ ServiceIdle /\ ChatIdle

NextSynth == GenerateMock \/ GenerateSynthetic

SpecSynth == InitSynth /\ [][NextSynth]_vars

----------------------------------------------------------------------------
(* drawHeatmap of the hotspot revision, part_002: one circular highlight       *)
(* around the maxPoint. With m = Math.min(width, height) the radius is 3m/20,  *)
(* so distance / radius is 20 * sqrt(d2) / (3m) for the squared distance d2.   *)

\* Math.floor((maxPoint.x / heatmapData[0].length) * width)
GridToRaster(g, gridLen, rasterLen) == FloatFloorScaled(g, gridLen, rasterLen)

\* distance < radius, for radius = m * 0.15
InsideRadius(d2, m) == 400 * d2 < 9 * m * m

\* The least n with n >= sqrt(nn / dd), and the greatest n with n <= sqrt(nn / dd).
CeilRoot(nn, dd) ==
    CHOOSE n \in 0..255 : n * n * dd >= nn /\ (n = 0 \/ (n - 1) * (n - 1) * dd < nn)
FloorRoot(nn, dd) ==
    CHOOSE n \in 0..255 : n * n * dd <= nn /\ (n + 1) * (n + 1) * dd > nn

\* A faulty ClampByte: the store of a Uint8Array, which keeps the low eight bits.
ClampByteWraps(k) == k % 256

\* A Uint8ClampedArray store of an integer.
ClampByte(k) == Min(255, Max(0, k))

\* Storing base - sqrt(nn / dd) into a Uint8ClampedArray: clamped to 0..255 and
\* rounded to the nearest integer, a tie to the even one.
StoreMinusRoot(base, nn, dd) ==
    LET c == CeilRoot(nn, dd)
        k == base - c
        half == (2 * c - 1) * (2 * c - 1) * dd
    IN  ClampByte(IF c = 0 \/ half < 4 * nn THEN k
                  ELSE IF half > 4 * nn THEN k + 1
                  ELSE IF k % 2 = 0 THEN k ELSE k + 1)

\* Storing base + sqrt(nn / dd) likewise.
StorePlusRoot(base, nn, dd) ==
    LET f == FloorRoot(nn, dd)
        k == base + f
        half == (2 * f + 1) * (2 * f + 1) * dd
    IN  ClampByte(IF half > 4 * nn THEN k
                  ELSE IF half < 4 * nn THEN k + 1
                  ELSE IF k % 2 = 0 THEN k ELSE k + 1)

\* A faulty HighlightPixel: the alpha channel is left as it is.
HighlightPixelNoAlpha(px, d2, m) ==
    IF ~InsideRadius(d2, m) THEN px
    ELSE <<StoreMinusRoot(px[1] + 255, 1700 * 1700 * d2, m * m),
           StorePlusRoot(px[2] - 100, 2000 * 2000 * d2, 9 * m * m),
           StorePlusRoot(px[3] - 100, 2000 * 2000 * d2, 9 * m * m),
           px[4]>>

\* if (distance < radius) { intensity = Math.max(0, 1 - distance / radius);
\* data[idx] = Math.min(255, data[idx] + intensity * 255); ... }: intensity * 255
\* is 255 - 1700 * sqrt(d2) / m and intensity * 100 is 100 - 2000 * sqrt(d2) / (3m).
HighlightPixel(px, d2, m) ==
    IF ~InsideRadius(d2, m) THEN px
    ELSE <<StoreMinusRoot(px[1] + 255, 1700 * 1700 * d2, m * m),
           StorePlusRoot(px[2] - 100, 2000 * 2000 * d2, 9 * m * m),
           StorePlusRoot(px[3] - 100, 2000 * 2000 * d2, 9 * m * m),
           StoreMinusRoot(px[4] + 100, 2000 * 2000 * d2, 9 * m * m)>>

\* drawHeatmap(ctx, width, height) of part_002 on the raster data: the raster
\* after putImageData, the maxPoint found and the centre of the highlight.
DrawHotspotPixels(width, height, data, heatmapData) ==
    LET maxPoint == MaxPoint(heatmapData)
        centerX == GridToRaster(maxPoint.x, GridWidth(heatmapData), width)
        centerY == GridToRaster(maxPoint.y, GridHeight(heatmapData), height)
    IN  [data     |-> [idx \in 1..(width * height) |->
                          HighlightPixel(data[idx],
                                         Dist2(PixelX(idx, width), PixelY(idx, width),
                                               centerX, centerY),
                                         Min(width, height))],
         maxPoint |-> maxPoint,
         centerX  |-> centerX,
         centerY  |-> centerY]

\* The raster sizes tried.
HotDims == {1, MaxHotRaster - 3, MaxHotRaster}

HotInputs ==
    {[width |-> w, height |-> h, data |-> BaseRaster(w, h, shift), heatmap |-> g] :
        w \in HotDims, h \in HotDims, shift \in 0..2, g \in BlendGrids}

DrawHotspotAction ==
    /\ hotIn # None
    /\ hotOut = None
    /\ hotOut' = DrawHotspotPixels(hotIn.width, hotIn.height, hotIn.data, hotIn.heatmap)
    /\ UNCHANGED <<viewerVars, scaleVars, peakVars, blendVars, synthVars, hotIn, mapVars, gradVars, serviceVars, chatVars>>

HotInit ==
    /\ hotIn \in HotInputs
    /\ hotOut = None

InitHot == ViewerIdle /\ ScaleIdle /\ PeakIdle /\ BlendIdle /\ SynthIdle /\ HotInit /\ MapIdle /\ GradIdle /\ ServiceIdle /\ ChatIdle

NextHot == DrawHotspotAction

SpecHot == InitHot /\ [][NextHot]_vars

----------------------------------------------------------------------------
(* Properties of the viewer *)

ImageLayers(c) == {k \in 1..Len(c.layers) : c.layers[k].kind = "image"}

\* The image element whose pixels the canvas shows: the last one drawn (0: none).
ShownImage(c) ==
    IF ImageLayers(c) = {} THEN 0
    ELSE c.layers[CHOOSE k \in ImageLayers(c) : \A m \in ImageLayers(c) : m <= k].img

Base(i) == <<ImageLayer(i)>>
BaseWithOverlay(i) == <<ImageLayer(i), OverlayLayer>>

SomeImageLoaded == \E i \in 1..Len(images) : images[i].fired

\* C1: once an image has been loaded, after every toggle of showHeatmap or change
\* of probability the canvas holds the clean base image or the base image with
\* exactly one overlay pass.
C1_CleanBaseThenOverlay ==
    SomeImageLoaded =>
        \E i \in 1..Len(images) : canvas.layers \in {Base(i), BaseWithOverlay(i)}

\* What does hold of C1: no overlay pass is ever drawn over an earlier overlay pass.
NoCumulativeOverlay ==
    Cardinality({k \in 1..Len(canvas.layers) : canvas.layers[k].kind = "overlay"}) <= 1

ToggledOffOnOff(k) ==
    /\ k + 2 <= Len(images)
    /\ images[k].src = images[k + 1].src /\ images[k + 1].src = images[k + 2].src
    /\ ~images[k].show /\ images[k + 1].show /\ ~images[k + 2].show
    /\ Gate(variant, images[k + 1].show, images[k + 1].prob)

C4_LoadOncePerImage ==
    [][(mounted /\ originalImage' = originalImage) => Len(images') = Len(images)]_vars

\* C5: a started load is never dropped, and each decode completion replaces the canvas
\* content with its own image, at its own size: the last decode wins.
C5_LastDecodeWins ==
    [][\A i \in 1..Len(images) :
         /\ Len(images') >= Len(images)
         /\ images'[i].src = images[i].src
         /\ (~images[i].fired /\ images'[i].fired) =>
               /\ ShownImage(canvas') = i
               /\ Len(canvas'.layers) <= 2
               /\ canvas'.layers[1] = ImageLayer(i)
               /\ canvas'.width = OnLoadSize(variant, images[i].src).width
               /\ canvas'.height = OnLoadSize(variant, images[i].src).height]_vars

\* The older of two loads of different images completed last and is on the canvas.
C5_Witness ==
    /\ Len(images) >= 2
    /\ images[1].fired /\ images[2].fired
    /\ images[1].src # images[2].src
    /\ ShownImage(canvas) = 1

----------------------------------------------------------------------------
(* Properties of the image scaling *)

RECURSIVE GCD(_, _)
GCD(a, b) == IF b = 0 THEN a ELSE GCD(b, a % b)

Abs(x) == IF x < 0 THEN -x ELSE x

\* abs(a/b - c/d) < 1/1000 for positive b, d; the fractions are reduced first.
RatioClose(a, b, c, d) ==
    LET g1 == GCD(a, b)
        g2 == GCD(c, d)
        a1 == a \div g1
        b1 == b \div g1
        c1 == c \div g2
        d1 == d \div g2
    IN  Abs(a1 * d1 - c1 * b1) < (b1 * d1 + 999) \div 1000

Scaled == scaleIn.width > maxWidth \/ scaleIn.height > maxHeight

\* C6: the computed display size, and the canvas size set from it, exceed neither
\* maxWidth = 400 nor maxHeight = 300.
C6_WithinBounds ==
    scaleOut # None =>
        /\ scaleOut.display.wn <= 400 * scaleOut.display.wd
        /\ scaleOut.display.hn <= 300 * scaleOut.display.hd
        /\ scaleOut.canvas.width <= 400
        /\ scaleOut.canvas.height <= 300

\* Both limits applied: the width was cut to 400 and the height then still exceeded 300.
C6_Witness ==
    /\ scaleOut # None
    /\ scaleIn.width > 400
    /\ 400 * scaleIn.height > 300 * scaleIn.width
    /\ scaleOut.display.hn = 300 /\ scaleOut.display.hd = 1

\* C7 as stated: whenever the image is scaled down, the canvas width and height
\* actually set have abs(outW/outH - inW/inH) < 1e-3.
C7_CanvasAspectRatio ==
    (scaleOut # None /\ Scaled) =>
        /\ scaleOut.canvas.height > 0
        /\ RatioClose(scaleOut.canvas.width, scaleOut.canvas.height,
                      scaleIn.width, scaleIn.height)

\* C7 amended: whenever the image is scaled down, the computed display width and
\* height (before the canvas truncates them) have abs(outW/outH - inW/inH) < 1e-3.
C7_DisplayAspectRatio ==
    (scaleOut # None /\ Scaled) =>
        RatioClose(scaleOut.display.wn * scaleOut.display.hd,
                   scaleOut.display.wd * scaleOut.display.hn,
                   scaleIn.width, scaleIn.height)

\* A scaled image whose computed size is fractional, so that the canvas truncates it.
C7_Witness ==
    /\ scaleOut # None /\ Scaled
    /\ scaleOut.display.wn % scaleOut.display.wd # 0
    /\ scaleOut.canvas.width < 400

----------------------------------------------------------------------------
(* Properties of the peak scan *)

Cells(grid) == (0..GridWidth(grid) - 1) \X (0..GridHeight(grid) - 1)
At(grid, c) == grid[c[2] + 1][c[1] + 1]
RowMajor(grid, c) == c[2] * GridWidth(grid) + c[1]

\* p is the first cell, in row-major order, that holds the maximum of region
\* (the zero point when the region is empty or holds no value above 0).
IsFirstMax(grid, region, p) ==
    IF \A c \in region : At(grid, c) <= 0
    THEN p = NoPoint
    ELSE /\ <<p.x, p.y>> \in region
         /\ p.value = At(grid, <<p.x, p.y>>)
         /\ \A c \in region : At(grid, c) <= p.value
         /\ \A c \in region :
               At(grid, c) = p.value => RowMajor(grid, <<p.x, p.y>>) <= RowMajor(grid, c)

\* Columns and rows between 20% and 80% of each dimension.
Central(grid) ==
    {c \in Cells(grid) :
        /\ 5 * c[1] >= GridWidth(grid) /\ 5 * c[1] < 4 * GridWidth(grid)
        /\ 5 * c[2] >= GridHeight(grid) /\ 5 * c[2] < 4 * GridHeight(grid)}

\* C9 as stated: the scan returns the first maximum of the central region only.
C9_CentralRegionPeak ==
    peakOut # None => IsFirstMax(peakIn, Central(peakIn), peakOut)

\* C9 amended: the scan covers the whole grid and returns the first maximum in
\* row-major order (the zero point {0,0,0} when no cell is above 0).
C9_WholeGridPeak ==
    peakOut # None => IsFirstMax(peakIn, Cells(peakIn), peakOut)

\* A 5x5 grid whose maximum is held by two cells, the first of them outside the
\* central region; the scan has returned it.
C9_Witness ==
    /\ peakOut # None
    /\ GridWidth(peakIn) = 5 /\ GridHeight(peakIn) = 5
    /\ peakOut.value = 100
    /\ <<peakOut.x, peakOut.y>> \notin Central(peakIn)
    /\ \E c \in Cells(peakIn) : c # <<peakOut.x, peakOut.y>> /\ At(peakIn, c) = 100

----------------------------------------------------------------------------
(* Properties of the pixel blend *)

Pixels == 1..(blendIn.width * blendIn.height)

\* The heat value drawHeatmap used for pixel idx.
HeatAt(idx) ==
    GetHeatmapValue(PixelX(idx, blendIn.width), PixelY(idx, blendIn.width),
                    blendIn.width, blendIn.height, blendIn.heatmap)

\* C8: every cell read by the raster-to-grid mapping lies inside the grid:
\* 0 <= gx < gridWidth and 0 <= gy < gridHeight, and no read fails.
C8_SampleInGrid ==
    blendOut # None =>
        /\ ~blendOut.threw
        /\ \A c \in blendOut.sampled :
              /\ 0 <= c[1] /\ c[1] < GridWidth(blendIn.heatmap)
              /\ 0 <= c[2] /\ c[2] < GridHeight(blendIn.heatmap)

\* A raster larger than the grid was drawn and its last pixel read the last cell.
C8_Witness ==
    /\ blendOut # None
    /\ blendIn.width > GridWidth(blendIn.heatmap)
    /\ blendIn.height > GridHeight(blendIn.heatmap)
    /\ <<GridWidth(blendIn.heatmap) - 1, GridHeight(blendIn.heatmap) - 1>> \in blendOut.sampled

\* abs(stored - n/100) <= 1: stored is n/100 up to the rounding of the byte store.
Stored(stored, n) == Abs(100 * stored - n) <= 100

\* C10 as stated: for heat value v > 0.1, red = min(255, red + v*255),
\* green = max(0, green - v*100), blue = max(0, blue - v*100),
\* alpha = min(255, alpha + v*100).
C10_BlendAsStated ==
    blendOut # None =>
        \A idx \in Pixels :
            HeatAt(idx) > 10 =>
                /\ Stored(blendOut.data[idx][1],
                          Min(25500, 100 * blendIn.data[idx][1] + 255 * HeatAt(idx)))
                /\ Stored(blendOut.data[idx][2],
                          Max(0, 100 * blendIn.data[idx][2] - 100 * HeatAt(idx)))
                /\ Stored(blendOut.data[idx][3],
                          Max(0, 100 * blendIn.data[idx][3] - 100 * HeatAt(idx)))
                /\ Stored(blendOut.data[idx][4],
                          Min(25500, 100 * blendIn.data[idx][4] + 100 * HeatAt(idx)))

\* C10 amended: for heat value v > 0.1, red = min(255, red + v*200),
\* green = max(0, green - v*100), blue = max(0, blue - v*150) rounded to the
\* nearest integer, and alpha is unchanged.
C10_BlendAsCoded ==
    blendOut # None =>
        \A idx \in Pixels :
            HeatAt(idx) > 10 =>
                /\ blendOut.data[idx][1] = Min(255, blendIn.data[idx][1] + 2 * HeatAt(idx))
                /\ blendOut.data[idx][2] = Max(0, blendIn.data[idx][2] - HeatAt(idx))
                /\ Abs(2 * blendOut.data[idx][3]
                        - Max(0, 2 * blendIn.data[idx][3] - 3 * HeatAt(idx))) <= 1
                /\ blendOut.data[idx][4] = blendIn.data[idx][4]

\* A pixel with heat 0.55 was blended without any clamp applying, one with heat
\* 1.0 had its red clamped at 255 and its green at 0.
C10_Witness ==
    /\ blendOut # None
    /\ \E idx \in Pixels :
          /\ HeatAt(idx) = 55
          /\ blendIn.data[idx] = <<100, 120, 140, 255>>
          /\ blendOut.data[idx] = <<210, 65, 58, 255>>
    /\ \E idx \in Pixels :
          /\ HeatAt(idx) = 100
          /\ blendIn.data[idx] = <<250, 5, 8, 200>>
          /\ blendOut.data[idx] = <<255, 0, 0, 200>>

\* The grid is zero everywhere except the one cell c, which is 1.0.
SingleHotCell(grid, c) ==
    \A d \in Cells(grid) : At(grid, d) = (IF d = c THEN 100 ELSE 0)

\* The cell pixel idx maps to.
CellOf(idx) ==
    RasterToGrid(PixelX(idx, blendIn.width), PixelY(idx, blendIn.width),
                 blendIn.width, blendIn.height, blendIn.heatmap)

\* Red at 255 and green and blue at 0: the blend has nothing left to shift.
Saturated(px) == px[1] = 255 /\ px[2] = 0 /\ px[3] = 0

\* C11: a pixel is modified only if the cell it maps to has a value > 0.1, and a
\* modified pixel has its red not decreased and its green and blue not increased;
\* with a grid that is zero except for one cell of 1.0, the pixels mapped to that
\* cell change (unless already saturated) and every other pixel is byte-identical
\* to the base image.
C11_OnlyHotPixelsChange ==
    blendOut # None =>
        /\ \A idx \in Pixels :
              /\ ~(HeatAt(idx) > 10) => blendOut.data[idx] = blendIn.data[idx]
              /\ blendOut.data[idx][1] >= blendIn.data[idx][1]
              /\ blendOut.data[idx][2] <= blendIn.data[idx][2]
              /\ blendOut.data[idx][3] <= blendIn.data[idx][3]
        /\ \A c \in Cells(blendIn.heatmap) :
              SingleHotCell(blendIn.heatmap, c) =>
                  \A idx \in Pixels :
                      IF CellOf(idx) = c
                      THEN Saturated(blendIn.data[idx])
                              \/ blendOut.data[idx] # blendIn.data[idx]
                      ELSE blendOut.data[idx] = blendIn.data[idx]

\* A 3 x 3 raster was blended over a 2 x 2 grid whose only hot cell is (1, 1):
\* the pixels of its block changed, the others did not.
C11_Witness ==
    /\ blendOut # None
    /\ blendIn.width = 3 /\ blendIn.height = 3
    /\ GridWidth(blendIn.heatmap) = 2 /\ GridHeight(blendIn.heatmap) = 2
    /\ SingleHotCell(blendIn.heatmap, <<1, 1>>)
    /\ {idx \in Pixels : blendOut.data[idx] # blendIn.data[idx]}
          = {idx \in Pixels : CellOf(idx) = <<1, 1>>}
    /\ Cardinality({idx \in Pixels : CellOf(idx) = <<1, 1>>}) = 1
    /\ \E idx \in Pixels : HeatAt(idx) = 0

----------------------------------------------------------------------------
(* Properties of the synthetic grid generators *)

SynthCells == (1..Len(synthOut.heatmap)) \X (1..Len(synthOut.heatmap[1]))

\* C12 as stated: a generator called with (width, height) returns exactly height
\* rows of exactly width cells, every value in [0,1].
C12_ShapeAsRequested ==
    (synthOut # None /\ synthIn.gen = "synthetic") =>
        /\ Len(synthOut.heatmap) = synthIn.args[2]
        /\ \A y \in 1..Len(synthOut.heatmap) :
              /\ Len(synthOut.heatmap[y]) = synthIn.args[1]
              /\ \A x \in 1..Len(synthOut.heatmap[y]) :
                    synthOut.heatmap[y][x] \in 0..100

\* C12 amended: whatever (width, height) and whatever the random hotspot
\* parameters, the generators return exactly 50 rows of exactly 50 cells, every
\* value in [0,1].
C12_FixedShape ==
    synthOut # None =>
        /\ Len(synthOut.heatmap) = 50
        /\ \A y \in 1..Len(synthOut.heatmap) :
              /\ Len(synthOut.heatmap[y]) = 50
              /\ \A x \in 1..Len(synthOut.heatmap[y]) :
                    synthOut.heatmap[y][x] \in 0..100

\* generateSyntheticHeatmap(400, 300) returned a 50 x 50 grid with a cell of
\* 1.0, cells strictly between 0 and 1, and cells of 0.
C12_Witness ==
    /\ synthOut # None
    /\ synthIn.gen = "synthetic"
    /\ synthIn.args = <<400, 300>>
    /\ Len(synthOut.heatmap) = 50 /\ Len(synthOut.heatmap[1]) = 50
    /\ \E c \in SynthCells : synthOut.heatmap[c[1]][c[2]] = 100
    /\ \E c \in SynthCells : synthOut.heatmap[c[1]][c[2]] \in 1..99
    /\ \E c \in SynthCells : synthOut.heatmap[c[1]][c[2]] = 0

\* The value the secondary hotspot has for cell <<y, x>>: 0.8 - distance/radius2
\* within radius2 of its centre, not below 0; 0 elsewhere and when there is no
\* secondary hotspot.
SecondaryValue(c) ==
    IF Len(synthOut.spots) < 2 THEN 0
    ELSE LET s == synthOut.spots[2]
             d2 == Dist2(c[2] - 1, c[1] - 1, s.x, s.y)
         IN  IF d2 < s.radius * s.radius
             THEN Max(0, 80 - DistanceRatio(d2, s.radius))
             ELSE 0

\* C13: writing the secondary hotspot never lowers a cell: the final value of
\* every cell is >= the value the primary hotspot gave it and equals the maximum
\* of the primary and the secondary hotspot values.
C13_MaxMerge ==
    synthOut # None =>
        \A c \in SynthCells :
            /\ synthOut.heatmap[c[1]][c[2]] >= synthOut.primary[c[1]][c[2]]
            /\ synthOut.heatmap[c[1]][c[2]]
                  = Max(synthOut.primary[c[1]][c[2]], SecondaryValue(c))

\* The two hotspots overlapped: in one cell the primary value was the larger and
\* was kept, in another the secondary value was the larger and was written.
C13_Witness ==
    /\ synthOut # None
    /\ Len(synthOut.spots) = 2
    /\ \E c \in SynthCells :
          /\ SecondaryValue(c) > 0
          /\ synthOut.primary[c[1]][c[2]] > SecondaryValue(c)
          /\ synthOut.heatmap[c[1]][c[2]] = synthOut.primary[c[1]][c[2]]
    /\ \E c \in SynthCells :
          /\ synthOut.primary[c[1]][c[2]] > 0
          /\ SecondaryValue(c) > synthOut.primary[c[1]][c[2]]
          /\ synthOut.heatmap[c[1]][c[2]] = SecondaryValue(c)

----------------------------------------------------------------------------
(* Properties of drawHeatmap on malformed grids *)

\* C14: a heat grid with zero rows, a zero-length row, or rows of unequal length
\* is rejected before any cell is sampled and before any pixel of the raster is
\* modified.
C14_InvalidGridRejected ==
    (blendOut # None /\ ~IsValidGrid(blendIn.heatmap)) =>
        /\ blendOut.threw
        /\ blendOut.sampled = {}
        /\ blendOut.data = blendIn.data

----------------------------------------------------------------------------
(* Properties of the viewer when the image cannot be decoded *)

\* The decode of the image the viewer was last given has failed.
DecodeFailed == originalImageRef # 0 /\ images[originalImageRef].broken

\* C15: when the base image cannot be decoded no raster is exposed: the canvas
\* shows no partial image and no overlay painted without the base image, and the
\* overlay-active indicator is not shown.
C15_NothingShownOnDecodeFailure ==
    DecodeFailed => (canvas.layers = <<>> /\ ~Indicator)

----------------------------------------------------------------------------
(* Properties of the hotspot highlight *)

HotPixels == 1..(hotIn.width * hotIn.height)

\* C16: when the maxPoint scan yields the zero-value sentinel {0,0,0} no
\* highlight is rendered: the raster stays equal to the clean base image.
C16_SentinelSkipsHighlight ==
    (hotOut # None /\ hotOut.maxPoint = NoPoint) => hotOut.data = hotIn.data

\* The squared distance of pixel idx to the centre of the highlight.
HotDist2(idx) ==
    Dist2(PixelX(idx, hotIn.width), PixelY(idx, hotIn.width),
          hotOut.centerX, hotOut.centerY)

HotMin == Min(hotIn.width, hotIn.height)

\* abs(e - sqrt(nn / dd)) <= 1/2 for an integer e.
NearRoot(e, nn, dd) ==
    /\ 2 * e + 1 >= 0
    /\ 4 * nn <= (2 * e + 1) * (2 * e + 1) * dd
    /\ 2 * e - 1 <= 0 \/ (2 * e - 1) * (2 * e - 1) * dd <= 4 * nn

\* sqrt(nn / dd) <= g
RootAtMost(g, nn, dd) == g >= 0 /\ nn <= g * g * dd

\* stored is min(255, old + c - sqrt(nn / dd)) up to the rounding of the byte store.
RaisedTo(stored, old, c, nn, dd) ==
    \/ stored = 255 /\ RootAtMost(old + c - 255, nn, dd)
    \/ NearRoot(old + c - stored, nn, dd)

\* stored is max(0, old - c + sqrt(nn / dd)) up to the rounding of the byte store.
LoweredTo(stored, old, c, nn, dd) ==
    \/ stored = 0 /\ RootAtMost(c - old, nn, dd)
    \/ NearRoot(stored - old + c, nn, dd)

\* C20: the highlight is centred at the raster coordinate of the maxPoint (the
\* pixel at maxPoint.x / gridWidth * width, or the one before it where the doubles
\* fall short of a whole number) and has radius min(width, height) * 0.15. A pixel at distance >= radius is unchanged;
\* a pixel at distance < radius gets, for intensity = 1 - distance/radius,
\* red = min(255, red + intensity*255), green = max(0, green - intensity*100),
\* blue = max(0, blue - intensity*100), alpha = min(255, alpha + intensity*100).
\* (intensity*255 = 255 - sqrt(1700^2 * d2 / m^2) and
\* intensity*100 = 100 - sqrt(2000^2 * d2 / (9 * m^2)) for m = min(width, height).)
C20_HighlightAsStated ==
    hotOut # None =>
        /\ hotOut.centerX * GridWidth(hotIn.heatmap) <= hotOut.maxPoint.x * hotIn.width
        /\ hotOut.maxPoint.x * hotIn.width < (hotOut.centerX + 2) * GridWidth(hotIn.heatmap)
        /\ hotOut.centerY * GridHeight(hotIn.heatmap) <= hotOut.maxPoint.y * hotIn.height
        /\ hotOut.maxPoint.y * hotIn.height < (hotOut.centerY + 2) * GridHeight(hotIn.heatmap)
        /\ \A idx \in HotPixels :
              LET d2 == HotDist2(idx)
                  old == hotIn.data[idx]
                  new == hotOut.data[idx]
                  n255 == 1700 * 1700 * d2
                  d255 == HotMin * HotMin
                  n100 == 2000 * 2000 * d2
                  d100 == 9 * HotMin * HotMin
              IN  IF 400 * d2 >= 9 * HotMin * HotMin
                  THEN new = old
                  ELSE /\ RaisedTo(new[1], old[1], 255, n255, d255)
                       /\ LoweredTo(new[2], old[2], 100, n100, d100)
                       /\ LoweredTo(new[3], old[3], 100, n100, d100)
                       /\ RaisedTo(new[4], old[4], 100, n100, d100)

\* A 20 x 20 raster was highlighted around a maxPoint that is not the first cell:
\* the centre pixel got full intensity, pixels inside the circle had their alpha
\* and red raised and their green and blue lowered without a clamp applying, and
\* a pixel exactly on the circle (distance 3 = radius) is unchanged.
C20_Witness ==
    /\ hotOut # None
    /\ hotIn.width = 20 /\ hotIn.height = 20
    /\ hotOut.centerX > 0 /\ hotOut.centerY > 0
    /\ \E idx \in HotPixels :
          /\ HotDist2(idx) = 0
          /\ hotIn.data[idx] = <<100, 120, 140, 255>>
          /\ hotOut.data[idx] = <<255, 20, 40, 255>>
    /\ \E idx \in HotPixels :
          /\ HotDist2(idx) = 8
          /\ hotIn.data[idx] = <<250, 5, 8, 200>>
          /\ hotOut.data[idx] = <<255, 0, 2, 206>>
    /\ \E idx \in HotPixels :
          /\ HotDist2(idx) = 2
          /\ hotIn.data[idx] = <<100, 120, 140, 255>>
          /\ hotOut.data[idx] = <<235, 67, 87, 255>>
    /\ \E idx \in HotPixels :
          /\ HotDist2(idx) = 9
          /\ hotIn.data[idx] = <<100, 120, 140, 255>>
          /\ hotOut.data[idx] = hotIn.data[idx]

----------------------------------------------------------------------------
(* Properties of the viewer for probabilities outside [0,1] *)

\* min(1, max(0, p))
Clamped(p) == Min(100, Max(0, p))

\* C17: a probability outside [0,1] is treated as clamped to [0,1]: the badge is
\* shown iff showHeatmap and min(1, max(0, probability)) >= 0.3, and a canvas
\* showing the current image holds the overlay iff showHeatmap and
\* min(1, max(0, probability)) >= 0.3.
C17_OutOfRangeAsClamped ==
    (mounted /\ variant = "gradient") =>
        /\ Indicator <=> (showHeatmap /\ Clamped(probability) >= 30)
        /\ ShownImage(canvas) = originalImageRef =>
              canvas.layers = IF showHeatmap /\ Clamped(probability) >= 30
                              THEN BaseWithOverlay(originalImageRef)
                              ELSE Base(originalImageRef)

\* The image was rendered with probability 1.3 and shows the overlay and the
\* badge, after it had been rendered with probability -0.2.
C17_Witness ==
    /\ mounted
    /\ variant = "gradient" /\ showHeatmap /\ probability = 130
    /\ images[originalImageRef].fired
    /\ canvas.layers = BaseWithOverlay(originalImageRef)
    /\ Indicator
    /\ \E k \in 1..Len(images) : images[k].prob = -20 /\ images[k].show /\ images[k].fired

----------------------------------------------------------------------------
(* Properties of the scaling, continued *)

\* The smaller of the rationals a[1]/a[2] and b[1]/b[2].
RatMin(a, b) == IF a[1] * b[2] <= b[1] * a[2] THEN a ELSE b

\* s = min(1, 400/origW, 300/origH) as <<numerator, denominator>>.
ScaleFactor(w, h) == RatMin(<<1, 1>>, RatMin(<<400, w>>, <<300, h>>))

\* C18: the display size computed by the two successive limit checks is
\* (origW * s, origH * s) for s = min(1, 400/origW, 300/origH); an image within
\* both bounds keeps its size.
C18_UniformScale ==
    scaleOut # None =>
        LET s == ScaleFactor(scaleIn.width, scaleIn.height)
        IN  /\ scaleOut.display.wn * s[2] = scaleIn.width * s[1] * scaleOut.display.wd
            /\ scaleOut.display.hn * s[2] = scaleIn.height * s[1] * scaleOut.display.hd
            /\ (scaleIn.width <= 400 /\ scaleIn.height <= 300) =>
                  /\ scaleOut.display.wn = scaleIn.width * scaleOut.display.wd
                  /\ scaleOut.display.hn = scaleIn.height * scaleOut.display.hd

\* An image over the height limit only was scaled by 300/origH, which gave it a
\* fractional width.
C18_Witness ==
    /\ scaleOut # None
    /\ scaleIn.width <= 400 /\ scaleIn.height > 300
    /\ ScaleFactor(scaleIn.width, scaleIn.height) = <<300, scaleIn.height>>
    /\ scaleOut.display.hn = 300 * scaleOut.display.hd
    /\ scaleOut.display.wn * scaleIn.height = 300 * scaleIn.width * scaleOut.display.wd
    /\ scaleOut.display.wn % scaleOut.display.wd # 0

----------------------------------------------------------------------------
(* Properties of the raster-to-grid mapping *)

MapPixels == 1..mapIn.rasterLen

\* C19: the mapping from pixel coordinate to grid index is monotone
\* non-decreasing, so the pixels mapped to one cell are contiguous (in each
\* coordinate, hence a rectangular block); and when the raster is at least as
\* long as the grid every grid index is mapped to by at least one pixel.
C19_MonotoneOnto ==
    mapOut # None =>
        /\ \A i, j \in MapPixels : i <= j => mapOut.cells[i] <= mapOut.cells[j]
        /\ \A i, j \in MapPixels :
              mapOut.cells[i] = mapOut.cells[j] =>
                  \A m \in i..j : mapOut.cells[m] = mapOut.cells[i]
        /\ mapIn.rasterLen >= mapIn.gridLen =>
              {mapOut.cells[i] : i \in MapPixels} = 0..(mapIn.gridLen - 1)

----------------------------------------------------------------------------
(* The radial gradient of the gradient revision, part_001 drawHeatmap *)

\* Math.floor(n * 0.35) for a whole n: the double 0.35 lies below 35/100, so
\* where n * 35/100 is a whole number k the product can round below k
\* (180 * 0.35 is 62.99999999999999).
FloorOfThirtyFive(n) ==
    LET k == (n * 35) \div 100
    IN  IF n > 0 /\ n % 20 = 0 /\ 4 * (n \div 20) > Pow2(BinadeBelow(k, -1))
        THEN k - 1 ELSE k

\* The values Math.floor(v * pct/100) can take for v = n/d. For a whole v the
\* doubles give the exact floor but for 0.35. A v computed by the scaling of
\* img.onload carries a rounding of its own: where v * pct/100 is a whole
\* number k the product falls at k or just below it, and both are taken.
Floors(n, d, pct) ==
    LET k == (n * pct) \div (d * 100)
    IN  IF d = 1 THEN {IF pct = 35 THEN FloorOfThirtyFive(n) ELSE k}
        ELSE IF k > 0 /\ (n * pct) % (d * 100) = 0 THEN {k - 1, k}
        ELSE {k}

\* const pancreaticRegion = { x: Math.floor(width * 0.45), ... }
pancreaticRegion(s) ==
    {[x |-> x, y |-> y, width |-> w, height |-> h] :
        x \in Floors(s.wn, s.wd, 45), y \in Floors(s.hn, s.hd, 35),
        w \in Floors(s.wn, s.wd, 20), h \in Floors(s.hn, s.hd, 15)}

\* centerX = pancreaticRegion.x + (pancreaticRegion.width / 2), in halves.
gradientCenterX(region) == 2 * region.x + region.width
gradientCenterY(region) == 2 * region.y + region.height

\* A faulty radius: a tenth of the width, whatever the height.
gradientRadiusOfWidth(s) == <<s.wn, 10 * s.wd>>

\* radius = Math.min(width, height) * 0.1, as <<numerator, denominator>>.
gradientRadius(s) ==
    IF s.wn * s.hd <= s.hn * s.wd THEN <<s.wn, 10 * s.wd>>
                                  ELSE <<s.hn, 10 * s.hd>>

\* gradient.addColorStop(offset, 'rgba(220, 38, 38, alpha)'): the stop is
\* placed after every stop whose offset is not larger. Offsets and alphas are
\* in hundredths.
RECURSIVE addColorStop(_, _, _)
addColorStop(stops, offset, alpha) ==
    IF stops = <<>> \/ stops[Len(stops)].offset <= offset
    THEN Append(stops, [offset |-> offset, alpha |-> alpha])
    ELSE Append(addColorStop(SubSeq(stops, 1, Len(stops) - 1), offset, alpha),
                stops[Len(stops)])

\* The four addColorStop calls of drawHeatmap.
gradient ==
    addColorStop(addColorStop(addColorStop(addColorStop(<<>>,
        0, 95), 30, 85), 60, 75), 100, 0)

\* The sizes drawHeatmap is called with: the width and height img.onload
\* computed (line 54), and canvas.width, canvas.height (line 70), which are
\* the same numbers without their fractions or the size of a new canvas.
GradientDims == Dims \cup {150, 180}

GradientSizes ==
    LET loaded == {DisplaySize(w, h) : w \in GradientDims, h \in GradientDims}
    IN  loaded
        \cup {Size(CanvasSize(s).width, 1, CanvasSize(s).height, 1) : s \in loaded}
        \cup {Size(DefaultCanvas.width, 1, DefaultCanvas.height, 1)}

\* drawHeatmap(ctx, width, height) of the gradient revision.
DrawGradient ==
    /\ gradIn # None
    /\ gradOut = None
    /\ \E region \in pancreaticRegion(gradIn) :
          gradOut' = [region  |-> region,
                      centerX |-> gradientCenterX(region),
                      centerY |-> gradientCenterY(region),
                      radius  |-> gradientRadius(gradIn),
                      stops   |-> gradient]
    /\ UNCHANGED <<viewerVars, scaleVars, peakVars, blendVars, synthVars,
                   hotVars, mapVars, gradIn, serviceVars, chatVars>>

GradInit ==
    /\ gradIn \in GradientSizes
    /\ gradOut = None

InitGrad == ViewerIdle /\ ScaleIdle /\ PeakIdle /\ BlendIdle /\ SynthIdle /\ HotIdle /\ MapIdle /\ GradInit /\ ServiceIdle /\ ChatIdle

NextGrad == DrawGradient

SpecGrad == InitGrad /\ [][NextGrad]_vars

RECURSIVE Gcd(_, _)
Gcd(a, b) == IF b = 0 THEN a ELSE Gcd(b, a % b)

\* a / b for the rationals a and b > 0, numerators and denominators cancelled
\* against each other before they are multiplied.
Ratio(a, b) ==
    LET g == Gcd(a[1], b[1])
        h == Gcd(a[2], b[2])
    IN  <<(a[1] \div g) * (b[2] \div h), (a[2] \div h) * (b[1] \div g)>>

\* C21: the radial gradient is centred inside the raster (within its
\* rectangle, and strictly inside a raster that has any pixel), its radius is
\* min(rasterW, rasterH) * k for a k in [0.1, 0.15], and the opacities of its
\* colour stops decrease from offset 0 to offset 1, where the stop is fully
\* transparent.
C21_GradientShape ==
    gradOut # None =>
        LET s == gradIn
            r == gradOut.radius
            m == RatMin(<<s.wn, s.wd>>, <<s.hn, s.hd>>)
            stops == gradOut.stops
        IN  /\ gradOut.centerX >= 0 /\ gradOut.centerX * s.wd <= 2 * s.wn
            /\ gradOut.centerY >= 0 /\ gradOut.centerY * s.hd <= 2 * s.hn
            /\ s.wn > 0 => gradOut.centerX * s.wd < 2 * s.wn
            /\ s.hn > 0 => gradOut.centerY * s.hd < 2 * s.hn
            /\ IF m[1] = 0 THEN r[1] = 0
               ELSE LET k == Ratio(r, m)
                    IN  10 * k[1] >= k[2] /\ 100 * k[1] <= 15 * k[2]
            /\ Len(stops) >= 2
            /\ stops[1].offset = 0
            /\ stops[Len(stops)].offset = 100 /\ stops[Len(stops)].alpha = 0
            /\ \A i \in 1..(Len(stops) - 1) :
                  /\ stops[i].offset < stops[i + 1].offset
                  /\ stops[i].alpha > stops[i + 1].alpha

\* A 400 x 180 raster: the region starts at (180, 62), the gradient is centred
\* on (220, 75.5) with radius 18.
C21_Witness ==
    /\ gradIn = Size(400, 1, 180, 1)
    /\ gradOut # None
    /\ gradOut.region = [x |-> 180, y |-> 62, width |-> 80, height |-> 27]
    /\ gradOut.centerX = 440 /\ gradOut.centerY = 151
    /\ gradOut.radius = <<180, 10>>

----------------------------------------------------------------------------
(* The two per-pixel compositing modes side by side *)

InitRaster == InitBlend \/ InitHot

NextRaster == DrawHeatmapAction \/ DrawHotspotAction

SpecRaster == InitRaster /\ [][NextRaster]_vars

Bytes == 0..255

\* C22: after compositing, in the pixel blend and in the hotspot highlight,
\* every channel of every raster pixel is an integer in 0..255, and no channel
\* wraps around: a channel the code adds to (red, and alpha in the highlight)
\* is never lower than it was, a channel it subtracts from (green, blue) never
\* higher, and the alpha the pixel blend leaves alone is kept.
C22_ChannelsStayBytes ==
    /\ blendOut # None =>
          \A idx \in 1..(blendIn.width * blendIn.height) :
             LET old == blendIn.data[idx]
                 new == blendOut.data[idx]
             IN  /\ \A c \in 1..4 : new[c] \in Bytes
                 /\ new[1] >= old[1] /\ new[2] <= old[2] /\ new[3] <= old[3]
                 /\ new[4] = old[4]
    /\ hotOut # None =>
          \A idx \in 1..(hotIn.width * hotIn.height) :
             LET old == hotIn.data[idx]
                 new == hotOut.data[idx]
             IN  /\ \A c \in 1..4 : new[c] \in Bytes
                 /\ new[1] >= old[1] /\ new[2] <= old[2] /\ new[3] <= old[3]
                 /\ new[4] >= old[4]

\* The highlight on a pixel of (250, 5, 8, 200) at its centre: every addition
\* and every subtraction is cut off, the pixel becomes (255, 0, 0, 255).
C22_Witness ==
    /\ hotOut # None
    /\ \E idx \in 1..(hotIn.width * hotIn.height) :
          /\ PixelX(idx, hotIn.width) = hotOut.centerX
          /\ PixelY(idx, hotIn.width) = hotOut.centerY
          /\ hotIn.data[idx] = <<250, 5, 8, 200>>
          /\ hotOut.data[idx] = <<255, 0, 0, 255>>

----------------------------------------------------------------------------
(* Renders and toggles over one heat grid *)

\* The redraw effect up to its drawImage: clearRect and drawImage put the base
\* image back on the canvas, with the overlay toggled off nothing else follows,
\* with the overlay on drawHeatmap composites again.
RedrawBlendBase ==
    /\ blendOut # None
    /\ blendOut' = None
    /\ UNCHANGED <<viewerVars, scaleVars, peakVars, blendIn, synthVars, hotVars,
                   mapVars, gradVars, serviceVars, chatVars>>

RedrawHotBase ==
    /\ hotOut # None
    /\ hotOut' = None
    /\ UNCHANGED <<viewerVars, scaleVars, peakVars, blendVars, synthVars, hotIn,
                   mapVars, gradVars, serviceVars, chatVars>>

NextRenders ==
    \/ DrawHeatmapAction
    \/ DrawHotspotAction
    \/ RedrawBlendBase
    \/ RedrawHotBase

SpecRenders == InitRaster /\ [][NextRenders]_vars

\* C23: compositing never writes to the heat grid: over every render and every
\* toggle heatmapData keeps its dimensions and its cell values.
C23_GridUntouched ==
    [][/\ blendIn # None => blendIn'.heatmap = blendIn.heatmap
       /\ hotIn # None => hotIn'.heatmap = hotIn.heatmap]_vars

\* A render that changed the raster: the grid had heat and the overlay was
\* composited from it.
C23_Witness ==
    /\ blendOut # None
    /\ blendOut.data # blendIn.data
    /\ \E y \in DOMAIN blendIn.heatmap : \E x \in DOMAIN blendIn.heatmap[y] :
          blendIn.heatmap[y][x] = 100

----------------------------------------------------------------------------
(* The primary hotspot of the synthetic grids *)

\* v hundredths is max(0, 1 - sqrt(d2) / radius) cut to hundredths.
IsFalloff(v, d2, radius) ==
    LET n == 100 - v
    IN  /\ v \in 0..100
        /\ n * n * radius * radius >= 10000 * d2
        /\ n = 0 \/ (n - 1) * (n - 1) * radius * radius < 10000 * d2

\* C24: for every draw the primary hotspot's centre lies in the 30%-70% band of
\* each axis and its radius is 10% to 20% of the grid's minor dimension; the
\* primary hotspot gives each cell at distance d < radius of the centre
\* max(0, 1 - d/radius) and no other cell anything, the centre cell of the grid
\* returned is exactly 1.0 and the cells outside every hotspot are 0.
C24_PrimaryHotspot ==
    synthOut # None =>
        LET p == synthOut.spots[1]
            h == Len(synthOut.heatmap)
            w == Len(synthOut.heatmap[1])
        IN  /\ 100 * p.x >= 30 * w /\ 100 * p.x <= 70 * w
            /\ 100 * p.y >= 30 * h /\ 100 * p.y <= 70 * h
            /\ 100 * p.radius >= 10 * Min(w, h)
            /\ 100 * p.radius <= 20 * Min(w, h)
            /\ \A c \in SynthCells :
                  LET d2 == Dist2(c[2] - 1, c[1] - 1, p.x, p.y)
                  IN  IF d2 < p.radius * p.radius
                      THEN IsFalloff(synthOut.primary[c[1]][c[2]], d2, p.radius)
                      ELSE synthOut.primary[c[1]][c[2]] = 0
            /\ synthOut.primary[p.y + 1][p.x + 1] = 100
            /\ synthOut.heatmap[p.y + 1][p.x + 1] = 100
            /\ \A c \in SynthCells :
                  (\A i \in 1..Len(synthOut.spots) :
                      LET q == synthOut.spots[i]
                      IN  Dist2(c[2] - 1, c[1] - 1, q.x, q.y) >= q.radius * q.radius)
                  => synthOut.heatmap[c[1]][c[2]] = 0

\* generateMockHeatmap with every draw 0: the centre cell (15, 15) is 1.0, its
\* neighbour at distance 1 of radius 5 is 0.8, the corner cell is 0.
C24_Witness ==
    /\ synthOut # None
    /\ synthIn.gen = "mock"
    /\ synthOut.spots = <<Spot(15, 15, 5)>>
    /\ synthOut.heatmap[16][16] = 100
    /\ synthOut.heatmap[16][17] = 80
    /\ synthOut.heatmap[1][1] = 0

----------------------------------------------------------------------------
(* Properties of the viewer under racing decodes *)

HasOverlay(c) == \E k \in 1..Len(c.layers) : c.layers[k].kind = "overlay"

AllDecoded == \A i \in 1..Len(images) : images[i].fired

\* C25: once every pending decode has completed, in whatever order, the overlay
\* is on the canvas iff the latest showHeatmap is true (and, in the gradient
\* revision, the latest probability is >= 0.3): no load callback started under
\* older props leaves a stale overlay state.
C25_LatestPropsWin ==
    (mounted /\ AllDecoded) =>
        (HasOverlay(canvas) <=> Gate(variant, showHeatmap, probability))

\* C26: in every reachable state, a pending decode included, the 'Analysis
\* Overlay Active' indicator is shown only when the canvas holds a decoded base
\* image with the overlay composited on it, and an overlay on the canvas always
\* lies on top of a decoded base image, never on a blank or cleared canvas.
C26_IndicatorMeansOverlayOnImage ==
    /\ (mounted /\ Indicator) =>
          \E i \in 1..Len(images) :
              images[i].complete /\ canvas.layers = BaseWithOverlay(i)
    /\ HasOverlay(canvas) =>
          \E i \in 1..Len(images) :
              images[i].complete /\ canvas.layers = BaseWithOverlay(i)

----------------------------------------------------------------------------
(* Grid to raster and back *)

\* C27: for a raster at least as large as the grid, the raster coordinate the
\* highlight is centred on, (floor(gx / gridW * rasterW),
\* floor(gy / gridH * rasterH)), maps back under the raster-to-grid mapping of
\* getHeatmapValue to the cell (gx, gy) it was computed from.
C27_RoundTrip ==
    (/\ hotOut # None
     /\ hotIn.width >= GridWidth(hotIn.heatmap)
     /\ hotIn.height >= GridHeight(hotIn.heatmap)) =>
        RasterToGrid(hotOut.centerX, hotOut.centerY,
                     hotIn.width, hotIn.height, hotIn.heatmap)
            = <<hotOut.maxPoint.x, hotOut.maxPoint.y>>

----------------------------------------------------------------------------
(* The size of the raster allocated by the loader *)

\* C28: for every decoded image of width >= 1 and height >= 1 the canvas
\* img.onload sets has an integer width >= 1 and an integer height >= 1.
C28_RasterNotEmpty ==
    (scaleOut # None /\ scaleIn.width >= 1 /\ scaleIn.height >= 1) =>
        /\ scaleOut.canvas.width \in Nat /\ scaleOut.canvas.width >= 1
        /\ scaleOut.canvas.height \in Nat /\ scaleOut.canvas.height >= 1

----------------------------------------------------------------------------
(* The cached classifier of analysisService: loadModel and analyzeImage of the *)
(* tf.js revision (analysisService.ts lines 15-126) and of the mobilenet       *)
(* revision (part_004).                                                        *)

Services == {"layers", "mobilenet"}

\* throw new Error(...) in the catch of loadModel
LoadModelError(rev) ==
    IF rev = "layers" THEN "Failed to load analysis model"
                      ELSE "Failed to initialize analysis model"

\* catch (error) { ...; throw new Error('Failed to analyze image'); }
AnalyzeImageCatch(error) == "Failed to analyze image"

\* One analyzeImage call: where it is suspended, the state of the load it
\* started (if any), the model that was cached when that load started, the model
\* loadModel returned to it and the error it threw.
Analysis(pc, load, cachedAtLoad) ==
    [pc |-> pc, load |-> load, cachedAtLoad |-> cachedAtLoad, loadedModel |-> 0,
     error |-> ""]

\* analyzeImage(file) up to its first suspension inside loadModel: with a cached
\* model loadModel returns it; without one the tf.js revision starts
\* tf.loadLayersModel, the mobilenet revision awaits tf.ready() first.
AnalyzeImage ==
    /\ Len(analyses) < MaxCalls
    /\ analyses' = Append(analyses,
          IF model # 0
          THEN [Analysis("analysing", "none", model) EXCEPT !.loadedModel = model]
          ELSE IF service = "layers" THEN Analysis("loading", "pending", model)
          ELSE Analysis("ready", "none", model))
    /\ UNCHANGED <<viewerVars, scaleVars, peakVars, blendVars, synthVars, hotVars,
                   mapVars, gradVars, service, model, chatVars>>

\* tf.ready() resolves: model = await mobilenet.load(...) starts the load, with
\* no second look at model.
TfReadyOf(k) ==
    /\ analyses[k].pc = "ready"
    /\ analyses' = [analyses EXCEPT ![k] = Analysis("loading", "pending", model)]
    /\ UNCHANGED <<viewerVars, scaleVars, peakVars, blendVars, synthVars, hotVars,
                   mapVars, gradVars, service, model, chatVars>>

TfReady == \E k \in 1..Len(analyses) : TfReadyOf(k)

\* tf.ready() rejects: loadModel throws, the catch of analyzeImage throws.
TfReadyFailsOf(k) ==
    /\ analyses[k].pc = "ready"
    /\ analyses' = [analyses EXCEPT ![k].pc = "failed",
                                    ![k].error = AnalyzeImageCatch(LoadModelError(service))]
    /\ UNCHANGED <<viewerVars, scaleVars, peakVars, blendVars, synthVars, hotVars,
                   mapVars, gradVars, service, model, chatVars>>

TfReadyFails == \E k \in 1..Len(analyses) : TfReadyFailsOf(k)

\* The load resolves: model = <the model loaded>; return model.
LoadResolvesOf(k) ==
    /\ analyses[k].pc = "loading"
    /\ model' = k
    /\ analyses' = [analyses EXCEPT ![k].pc = "analysing", ![k].load = "ok",
                                    ![k].loadedModel = k]
    /\ UNCHANGED <<viewerVars, scaleVars, peakVars, blendVars, synthVars, hotVars,
                   mapVars, gradVars, service, chatVars>>

LoadResolves == \E k \in 1..Len(analyses) : LoadResolvesOf(k)

\* The load rejects: model is not assigned, loadModel throws, the catch of
\* analyzeImage throws.
LoadRejectsOf(k) ==
    /\ analyses[k].pc = "loading"
    /\ analyses' = [analyses EXCEPT ![k].pc = "failed", ![k].load = "failed",
                                    ![k].error = AnalyzeImageCatch(LoadModelError(service))]
    /\ UNCHANGED <<viewerVars, scaleVars, peakVars, blendVars, synthVars, hotVars,
                   mapVars, gradVars, service, model, chatVars>>

LoadRejects == \E k \in 1..Len(analyses) : LoadRejectsOf(k)

\* preprocessImage, the prediction and generateHeatmap all resolve: the results
\* are returned.
AnalysisResolvesOf(k) ==
    /\ analyses[k].pc = "analysing"
    /\ analyses' = [analyses EXCEPT ![k].pc = "done"]
    /\ UNCHANGED <<viewerVars, scaleVars, peakVars, blendVars, synthVars, hotVars,
                   mapVars, gradVars, service, model, chatVars>>

AnalysisResolves == \E k \in 1..Len(analyses) : AnalysisResolvesOf(k)

\* One of them rejects or throws: the catch of analyzeImage throws.
AnalysisRejectsOf(k) ==
    /\ analyses[k].pc = "analysing"
    /\ \E cause \in {"img.onerror", "Failed to get canvas context"} :
          analyses' = [analyses EXCEPT ![k].pc = "failed",
                                       ![k].error = AnalyzeImageCatch(cause)]
    /\ UNCHANGED <<viewerVars, scaleVars, peakVars, blendVars, synthVars, hotVars,
                   mapVars, gradVars, service, model, chatVars>>

AnalysisRejects == \E k \in 1..Len(analyses) : AnalysisRejectsOf(k)

ServiceInit ==
    /\ service \in Services
    /\ model = 0
    /\ analyses = <<>>

InitService == ViewerIdle /\ ScaleIdle /\ PeakIdle /\ BlendIdle /\ SynthIdle /\ HotIdle /\ MapIdle /\ GradIdle /\ ServiceInit /\ ChatIdle

NextService ==
    \/ AnalyzeImage
    \/ TfReady
    \/ TfReadyFails
    \/ LoadResolves
    \/ LoadRejects
    \/ AnalysisResolves
    \/ AnalysisRejects

SpecService == InitService /\ [][NextService]_vars

\* The calls whose model load is pending or has succeeded.
LiveLoads == {k \in 1..Len(analyses) : analyses[k].load \in {"pending", "ok"}}

\* C29: the classifier is a lazily initialised singleton: over any sequence of
\* analyzeImage calls, overlapping ones included, at most one model load is
\* started unless an earlier one failed and none is started once a load has
\* succeeded; a failed load leaves the cached model null; every failure of
\* analyzeImage is reported as 'Failed to analyze image'.
C29_ModelLoadedOnce ==
    /\ Cardinality(LiveLoads) <= 1
    /\ \A k \in 1..Len(analyses) :
          /\ analyses[k].load # "none" => analyses[k].cachedAtLoad = 0
          /\ analyses[k].pc = "failed" => analyses[k].error = "Failed to analyze image"
    /\ model # 0 => analyses[model].load = "ok"

----------------------------------------------------------------------------
(* The chat of the results page: handleSendMessage of ResultsPage.tsx *)

Whitespace == {" ", "\t"}

RECURSIVE TrimStart(_)
TrimStart(text) ==
    IF text # <<>> /\ Head(text) \in Whitespace THEN TrimStart(Tail(text)) ELSE text

RECURSIVE TrimEnd(_)
TrimEnd(text) ==
    IF text # <<>> /\ text[Len(text)] \in Whitespace
    THEN TrimEnd(SubSeq(text, 1, Len(text) - 1)) ELSE text

\* message.trim()
Trim(text) == TrimEnd(TrimStart(text))

\* The texts the input is given: empty, blank, a question between blanks.
Messages == {<<>>, <<"\t", " ">>, <<" ", "b", " ">>}

\* What chatbotRespond resolves with.
Responses == {<<"answer">>}

\* The text of the bot message appended by the catch.
Apology == <<"I'm sorry, I'm having trouble processing your question. Please try again.">>

\* onChange={(e) => setMessage(e.target.value)}, handleFaqClick
SetMessage ==
    /\ \E text \in Messages \ {message} : message' = text
    /\ UNCHANGED <<viewerVars, scaleVars, peakVars, blendVars, synthVars, hotVars,
                   mapVars, gradVars, serviceVars, chatMessages, sends>>

\* handleSendMessage up to await chatbotRespond(message, results)
HandleSendMessage ==
    /\ Len(sends) < MaxSends
    /\ IF Trim(message) = <<>>
       THEN /\ sends' = Append(sends, [text |-> message, state |-> "returned"])
            /\ UNCHANGED <<message, chatMessages>>
       ELSE /\ chatMessages' = Append(chatMessages,
                  [sender |-> "user", text |-> message, send |-> Len(sends) + 1])
            /\ message' = <<>>
            /\ sends' = Append(sends, [text |-> message, state |-> "awaiting"])
    /\ UNCHANGED <<viewerVars, scaleVars, peakVars, blendVars, synthVars, hotVars,
                   mapVars, gradVars, serviceVars>>

\* chatbotRespond resolves: the try block appends the bot message.
RespondResolvesOf(k) ==
    /\ k <= Len(sends)
    /\ sends[k].state = "awaiting"
    /\ \E response \in Responses :
          chatMessages' = Append(chatMessages,
              [sender |-> "bot", text |-> response, send |-> k])
    /\ sends' = [sends EXCEPT ![k].state = "replied"]
    /\ UNCHANGED <<viewerVars, scaleVars, peakVars, blendVars, synthVars, hotVars,
                   mapVars, gradVars, serviceVars, message>>

RespondResolves == \E k \in 1..MaxSends : RespondResolvesOf(k)

\* A faulty RespondRejectsOf: the catch only logs the error.
RespondRejectsSilentlyOf(k) ==
    /\ k <= Len(sends)
    /\ sends[k].state = "awaiting"
    /\ sends' = [sends EXCEPT ![k].state = "failed"]
    /\ UNCHANGED <<viewerVars, scaleVars, peakVars, blendVars, synthVars, hotVars,
                   mapVars, gradVars, serviceVars, message, chatMessages>>

\* chatbotRespond rejects: the catch appends the apology.
RespondRejectsOf(k) ==
    /\ k <= Len(sends)
    /\ sends[k].state = "awaiting"
    /\ chatMessages' = Append(chatMessages,
          [sender |-> "bot", text |-> Apology, send |-> k])
    /\ sends' = [sends EXCEPT ![k].state = "failed"]
    /\ UNCHANGED <<viewerVars, scaleVars, peakVars, blendVars, synthVars, hotVars,
                   mapVars, gradVars, serviceVars, message>>

RespondRejects == \E k \in 1..MaxSends : RespondRejectsOf(k)

ChatInit ==
    /\ message = <<>>
    /\ chatMessages = <<Greeting>>
    /\ sends = <<>>

InitChat == ViewerIdle /\ ScaleIdle /\ PeakIdle /\ BlendIdle /\ SynthIdle /\ HotIdle /\ MapIdle /\ GradIdle /\ ServiceIdle /\ ChatInit

NextChat ==
    \/ SetMessage
    \/ HandleSendMessage
    \/ RespondResolves
    \/ RespondRejects

\* The promise of chatbotRespond settles, and the event loop then runs the
\* rest of the handler that awaits it.
ChatFairness ==
    \A k \in 1..MaxSends : WF_vars(RespondResolvesOf(k) \/ RespondRejectsOf(k))

SpecChat == InitChat /\ [][NextChat]_vars /\ ChatFairness

MessagesOf(k, sender) ==
    {i \in 1..Len(chatMessages) :
        chatMessages[i].send = k /\ chatMessages[i].sender = sender}

IsPrefix(a, b) == Len(a) <= Len(b) /\ SubSeq(b, 1, Len(a)) = a

\* A send of an empty or blank input changes nothing; any other send appends
\* one user message with the text of the input and clears the input; no step
\* removes or changes a message.
ChatStep ==
    /\ IsPrefix(chatMessages, chatMessages')
    /\ Len(sends') > Len(sends) =>
          IF \A i \in 1..Len(message) : message[i] \in {" ", "\t"}
          THEN chatMessages' = chatMessages /\ message' = message
          ELSE /\ chatMessages' = Append(chatMessages,
                      [sender |-> "user", text |-> message, send |-> Len(sends')])
               /\ message' = <<>>

\* Each send that was not blank has its one user message and at most one bot
\* message, after the user message; once chatbotRespond has settled it has
\* exactly one: the reply, or the apology when the chatbot failed.
ChatInvariant ==
    \A k \in 1..Len(sends) :
        IF sends[k].text \in {<<>>, <<"\t", " ">>}
        THEN MessagesOf(k, "user") = {} /\ MessagesOf(k, "bot") = {}
        ELSE /\ Cardinality(MessagesOf(k, "user")) = 1
             /\ Cardinality(MessagesOf(k, "bot")) <= 1
             /\ \A u \in MessagesOf(k, "user") : \A b \in MessagesOf(k, "bot") : u < b
             /\ sends[k].state = "replied" =>
                   \E b \in MessagesOf(k, "bot") : chatMessages[b].text \in Responses
             /\ sends[k].state = "failed" =>
                   \E b \in MessagesOf(k, "bot") : chatMessages[b].text = Apology

\* Every send that was not blank is eventually followed by its bot message.
ChatAnswered ==
    \A k \in 1..MaxSends :
        (k <= Len(sends) /\ MessagesOf(k, "user") # {})
            ~> (Cardinality(MessagesOf(k, "bot")) = 1)

\* C30: sending an empty or whitespace-only message changes nothing; every
\* other send appends exactly one user message, clears the input and is
\* eventually followed by exactly one bot message, the chatbot's reply or the
\* fixed apology; the message list is append-only, and when sends overlap each
\* user message still gets exactly one bot message, appended after it.
C30_ChatSends == [][ChatStep]_vars /\ []ChatInvariant /\ ChatAnswered

\* Two sends overlapped and were answered in the other order: the second got
\* its reply first, the first got the apology.
C30_Witness ==
    /\ Len(sends) = 3
    /\ sends[1].state = "failed" /\ sends[2].state = "returned"
    /\ sends[3].state = "replied"
    /\ Len(chatMessages) = 5
    /\ chatMessages[2] = [sender |-> "user", text |-> <<" ", "b", " ">>, send |-> 1]
    /\ chatMessages[3] = [sender |-> "user", text |-> <<" ", "b", " ">>, send |-> 3]
    /\ chatMessages[4] = [sender |-> "bot", text |-> <<"answer">>, send |-> 3]
    /\ chatMessages[5] = [sender |-> "bot", text |-> Apology, send |-> 1]
    /\ message = <<>>

====
